---- MODULE Spec2Model ----
(***************************************************************************)
(* Model of the persistence core of cli_unites (core/db.py): the Database  *)
(* handle with its mode and its schema capability flags, the remote        *)
(* adapter's team, membership and invitation operations, the note          *)
(* operations of both adapters, and the tables of the remote backend and   *)
(* of the local store as the adapters' queries see them.                   *)
(***************************************************************************)
EXTENDS Integers, Sequences, FiniteSets, TLC

VARIABLES schema, teams, users_teams, team_invitations, now, db, last,
          env, notes, tags, notes_tags, sqlite, projects, auth, users,
          loop, config, rt, messenger

\* what lies beside the facade and its backend: the retry loop that is running,
\* the configuration file, the realtime client and the messenger
beside == <<loop, config, rt, messenger>>

vars == <<schema, teams, users_teams, team_invitations, now, db, last,
          env, notes, tags, notes_tags, sqlite, projects, auth, users, beside>>

-----------------------------------------------------------------------------
(* Bounds of the model *)

\* backend calls of one facade call that an injected failure can hit
MaxScript == 3
\* most injected failures during one facade call
MaxFaults == 1
\* latest value of the clock
MaxTime == 2
\* most teams created in one run of the capability negotiation
MaxTeams == 1
MaxSlugTeams == 2
\* most notes stored, in the remote backend and the local store together
MaxNotes == 2
\* most answers of the backend to one add_note with tags
MaxTagScript == 6
\* most rows with an embedding the matcher ranks
MaxCandidates == 3
\* the passes of a retry loop are counted up to this number
MaxPasses == 3
\* latest time of a call on the configuration
MaxConfigTime == 1
\* most changes the realtime server sends on a connection
MaxFrames == 2
\* most rows of a table of the messenger
MaxRows == 2

-----------------------------------------------------------------------------
(* Value spaces *)

Null == "null"

Clients == {"c1", "c2"}
Users == {"u1", "u2"}
TeamIds == {"t1", "t2"}
Names == {"Team A"}
Descriptions == {"d1"}
Emails == {"a@x"}
Codes == {"K1", "K2"}
Roles == {"owner", "admin", "member"}

\* optional parts of the remote schema (columns, one table)
Columns == {"slug", "description", "created_by", "role", "invited_by",
            "team_invitations", "deleted_at", "note_team_id"}

\* the remote schemas the handle is run against: the latest migration and
\* earlier ones
Schemas == {Columns,
            Columns \ {"slug"},
            Columns \ {"description", "created_by"},
            Columns \ {"role", "invited_by"},
            {}}

-----------------------------------------------------------------------------
(* Exceptions of the backend: the text of the message as the set of the    *)
(* words the handlers look for, and the details of a PostgrestAPIError.    *)

NoExc == [raised |-> FALSE, text |-> {}, details |-> {}]

Exc(text, details) == [raised |-> TRUE, text |-> text, details |-> details]

\* s occurs in t as a substring, for the words of the messages
SubstringPairs == {<<"users", "users_teams">>, <<"teams", "users_teams">>,
                   <<"column", "unknown column">>}

Has(e, s) == \E t \in e.text : t = s \/ <<s, t>> \in SubstringPairs

\* the backend's message for a query that names a column or table the schema lacks
MissingExc(c) ==
    CASE c = "slug"        -> Exc({"column", "teams", "slug", "does not exist"}, {})
      [] c = "description" -> Exc({"column", "teams", "description", "does not exist"}, {})
      [] c = "created_by"  -> Exc({"column", "teams", "created_by", "does not exist"}, {})
      [] c = "role"        -> Exc({"column", "users_teams", "role", "does not exist"}, {})
      [] c = "invited_by"  -> Exc({"column", "users_teams", "invited_by", "does not exist"}, {})
      [] c = "deleted_at"  -> Exc({"column", "teams", "deleted_at", "does not exist"}, {})
      [] c = "note_team_id" -> Exc({"column", "notes", "team_id", "does not exist"}, {})
      [] OTHER             -> Exc({"relation", "team_invitations", "does not exist"}, {})

\* failures the backend can answer with whatever the query is
Faults == {"other", "duplicate", "fk", "slug"}

InjectedExc(fault) ==
    CASE fault = "duplicate" -> Exc({"duplicate", "unique constraint"}, {})
      [] fault = "fk"        -> Exc({"foreign key", "users_teams", "users"}, {})
      [] fault = "slug"      -> Exc({"column", "slug", "does not exist"}, {})
      [] fault = "slug_taken" -> Exc({"duplicate", "unique constraint", "slug"}, {"slug"})
      [] OTHER               -> Exc({"connection"}, {})

\* what the backend answers the successive calls of one facade call with, when
\* the failures it can inject are those of F
Scripts(F) ==
    {f \in [1..MaxScript -> F \cup {"ok"}] :
        Cardinality({i \in 1..MaxScript : f[i] # "ok"}) <= MaxFaults}

-----------------------------------------------------------------------------
(* The Database handle *)

Caps == {"supports_team_slug", "supports_team_description",
         "supports_team_created_by", "supports_user_team_role",
         "supports_user_team_invited_by", "supports_team_invitations",
         "supports_note_team_id"}

\* the constructor arguments and the environment variables a handle is built
\* from: Null is None or unset, "" is set to the empty string
Envs ==
    [db_path : {Null, "explicit.db"}, supabase_client : {Null, "given"},
     CLI_UNITES_DB_PATH : {Null, "", "override.db"},
     SUPABASE_URL : {Null, "", "url"}, SUPABASE_KEY : {Null, "", "key"}]

RemoteEnv ==
    [db_path |-> Null, supabase_client |-> Null, CLI_UNITES_DB_PATH |-> Null,
     SUPABASE_URL |-> "url", SUPABASE_KEY |-> "key"]

LocalEnv == [RemoteEnv EXCEPT !.CLI_UNITES_DB_PATH = "override.db"]

\* the files of the local store
Paths == {"explicit.db", "override.db", "config/notes.db"}

\* a value Python takes for true
Truthy(v) == v \notin {Null, ""}

\* mutant: the path given in CLI_UNITES_DB_PATH is not looked at
Mut_resolve_without_override(e) ==
    IF e.db_path # Null THEN e.db_path
    ELSE IF ~(Truthy(e.SUPABASE_URL) /\ Truthy(e.SUPABASE_KEY)) THEN "config/notes.db"
    ELSE Null

_resolve_db_path(e) ==
    IF e.db_path # Null THEN e.db_path
    ELSE IF Truthy(e.CLI_UNITES_DB_PATH) THEN e.CLI_UNITES_DB_PATH
    ELSE IF ~(Truthy(e.SUPABASE_URL) /\ Truthy(e.SUPABASE_KEY)) THEN "config/notes.db"
    ELSE Null

\* Database.__init__ up to the choice of the mode; exc is the exception the
\* constructor ends with
NewHandle(user) ==
    [mode |-> "supabase", user_id |-> user, client |-> Null, sqlite_conn |-> Null,
     db_path |-> Null, exc |-> "none",
     supports_team_slug |-> TRUE, supports_team_description |-> TRUE,
     supports_team_created_by |-> TRUE, supports_user_team_role |-> TRUE,
     supports_user_team_invited_by |-> TRUE, supports_team_invitations |-> TRUE,
     supports_note_team_id |-> TRUE]

_init_supabase(h, e) ==
    IF e.supabase_client # Null
    THEN [h EXCEPT !.client = e.supabase_client, !.supports_team_slug = TRUE]
    ELSE IF ~Truthy(e.SUPABASE_URL) \/ ~Truthy(e.SUPABASE_KEY)
    THEN [h EXCEPT !.exc = "ValueError"]
    ELSE [h EXCEPT !.client = "created", !.supports_team_slug = TRUE]

\* the mode is set by __init__ right before it calls _init_sqlite
_init_sqlite(h, db_path) ==
    [h EXCEPT !.mode = "sqlite", !.db_path = db_path, !.sqlite_conn = "open",
              !.supports_team_slug = FALSE, !.supports_team_description = FALSE,
              !.supports_team_created_by = FALSE, !.supports_user_team_role = FALSE,
              !.supports_user_team_invited_by = FALSE,
              !.supports_team_invitations = FALSE, !.supports_note_team_id = FALSE]

\* Database(supabase_client, db_path) in the environment e, both arguments
\* being fields of e
Database(user, e) ==
    IF _resolve_db_path(e) # Null THEN _init_sqlite(NewHandle(user), _resolve_db_path(e))
    ELSE _init_supabase(NewHandle(user), e)

\* Database.close
close(h) == IF h.sqlite_conn # Null THEN [h EXCEPT !.sqlite_conn = Null] ELSE h

Supported(h) == {c \in Caps : h[c]}

-----------------------------------------------------------------------------
(* Capability handlers: each yields the handle after it and whether it     *)
(* handled the exception.                                                  *)

\* mutant: handling a missing slug column switches the description flag back on
Mut_slug_reenabled(h, e) ==
    IF Has(e, "slug") /\ (Has(e, "does not exist") \/ Has(e, "unknown column"))
    THEN [h |-> [h EXCEPT !.supports_team_slug = FALSE,
                          !.supports_team_description = TRUE],
          handled |-> TRUE]
    ELSE [h |-> h, handled |-> FALSE]

\* mutant: the flag is downgraded but the caller is not told to retry
Mut_slug_no_retry(h, e) ==
    IF Has(e, "slug") /\ (Has(e, "does not exist") \/ Has(e, "unknown column"))
    THEN [h |-> [h EXCEPT !.supports_team_slug = FALSE], handled |-> FALSE]
    ELSE [h |-> h, handled |-> FALSE]

_handle_slug_capability_error(h, e) ==
    IF Has(e, "slug") /\ (Has(e, "does not exist") \/ Has(e, "unknown column"))
    THEN [h |-> [h EXCEPT !.supports_team_slug = FALSE], handled |-> TRUE]
    ELSE IF "slug" \in e.details
    THEN [h |-> [h EXCEPT !.supports_team_slug = FALSE], handled |-> TRUE]
    ELSE [h |-> h, handled |-> FALSE]

\* mutant: a missing created_by column is downgraded but not reported as handled
Mut_team_column_desc_only(h, e) ==
    LET d == h.supports_team_description /\ Has(e, "description") /\ Has(e, "teams")
        h1 == IF d THEN [h EXCEPT !.supports_team_description = FALSE] ELSE h
        c == h1.supports_team_created_by /\ Has(e, "created_by") /\ Has(e, "teams")
        h2 == IF c THEN [h1 EXCEPT !.supports_team_created_by = FALSE] ELSE h1
    IN [h |-> h2, handled |-> d]

_handle_team_column_error(h, e) ==
    LET d == h.supports_team_description /\ Has(e, "description") /\ Has(e, "teams")
        h1 == IF d THEN [h EXCEPT !.supports_team_description = FALSE] ELSE h
        c == h1.supports_team_created_by /\ Has(e, "created_by") /\ Has(e, "teams")
        h2 == IF c THEN [h1 EXCEPT !.supports_team_created_by = FALSE] ELSE h1
    IN [h |-> h2, handled |-> d \/ c]

_handle_users_team_column_error(h, e) ==
    LET r == h.supports_user_team_role /\ Has(e, "role") /\ Has(e, "users_teams")
        h1 == IF r THEN [h EXCEPT !.supports_user_team_role = FALSE] ELSE h
        i == h1.supports_user_team_invited_by /\ Has(e, "invited_by")
             /\ Has(e, "users_teams")
        h2 == IF i THEN [h1 EXCEPT !.supports_user_team_invited_by = FALSE] ELSE h1
    IN [h |-> h2, handled |-> r \/ i]

_handle_invitations_error(h, e) ==
    IF Has(e, "team_invitations") /\ (Has(e, "does not exist") \/ Has(e, "relation"))
    THEN [h |-> [h EXCEPT !.supports_team_invitations = FALSE], handled |-> TRUE]
    ELSE [h |-> h, handled |-> FALSE]

-----------------------------------------------------------------------------
(* One facade call runs on a world w: the backend's tables, the handle h,  *)
(* the backend calls issued so far (calls) and the failures the backend    *)
(* answers them with (f, by position). Every operation yields the world it *)
(* leaves, the exception it raises ("none" when it returns) and its return *)
(* value.                                                                  *)

World(h, f) ==
    [teams |-> teams, users_teams |-> users_teams,
     team_invitations |-> team_invitations, notes |-> notes, tags |-> tags,
     notes_tags |-> notes_tags, sqlite |-> sqlite, projects |-> projects,
     h |-> h, calls |-> <<>>, f |-> f]

\* the world of a call of client c that resolves the acting user: with the
\* AuthManager of the client and the users table
WorldOf(c, f) == [a |-> auth[c], users |-> users] @@ World(db[c], f)

Return(w, ret) == [w |-> w, exc |-> "none", ret |-> ret]

Raise(w, exc) == [w |-> w, exc |-> exc, ret |-> Null]

ColumnOrder == <<"team_invitations", "description", "slug", "created_by", "role",
                 "invited_by", "deleted_at", "note_team_id">>

FirstMissing(missing) ==
    LET i == CHOOSE k \in 1..Len(ColumnOrder) :
                 /\ ColumnOrder[k] \in missing
                 /\ \A j \in 1..(k - 1) : ColumnOrder[j] \notin missing
    IN ColumnOrder[i]

\* the backend's answer to the next call: cols are the optional columns (or
\* table) the query names, dup says that the write breaks a uniqueness constraint
Respond(w, cols, dup) ==
    LET i == Len(w.calls) + 1
        inj == IF i <= Len(w.f) THEN w.f[i] ELSE "ok"
        missing == cols \ schema
    IN IF inj # "ok" THEN InjectedExc(inj)
       ELSE IF missing # {} THEN MissingExc(FirstMissing(missing))
       ELSE IF dup THEN Exc({"duplicate", "unique constraint"}, {})
       ELSE NoExc

\* the call is on record: the place in the adapter that issued it, the table,
\* the kind of query, the optional columns named, the flags at that time and
\* the backend's answer
Logged(w, site, table, op, cols, e) ==
    [w EXCEPT !.calls = Append(@, [site |-> site, table |-> table, op |-> op,
                                   cols |-> cols, caps |-> Supported(w.h),
                                   exc |-> e])]

IsDuplicate(e) == Has(e, "duplicate") \/ Has(e, "unique constraint")

\* the uniqueness constraints of the backend's tables: an insert or update that
\* would store a second row with the same key is answered with a duplicate error
MembershipConflict(w, user_id, team_id) ==
    \E m \in w.users_teams : m.user_id = user_id /\ m.team_id = team_id

SlugConflict(w, slug, team_id) ==
    \E t \in w.teams : t.slug = slug /\ t.id # team_id

CodeConflict(w, code) == \E i \in w.team_invitations : i.code = code

\* the next backend call is issued, answered and put on record
Call(w, site, table, op, cols, dup) ==
    Logged(w, site, table, op, cols, Respond(w, cols, dup))

\* the backend's answer to the latest call, and the optional columns it named
Answer(w) == w.calls[Len(w.calls)].exc

Named(w) == w.calls[Len(w.calls)].cols

-----------------------------------------------------------------------------
(* Helpers of the remote adapter *)

slugify(name) ==
    IF name \in {"Team A", "team-a"} THEN "team-a"
    ELSE IF name = "team-b" THEN "team-b"
    ELSE "team"

MaxSlugAttempts == 50

\* mutant: the suffix is appended from the first attempt on
Mut_candidate_suffix_always(base, attempt) == base \o "-" \o ToString(attempt)

Candidate(base, attempt) ==
    IF attempt = 1 THEN base ELSE base \o "-" \o ToString(attempt)

_require_user_id(w) ==
    IF w.h.mode = "sqlite"
    THEN Return(w, IF w.h.user_id # Null THEN w.h.user_id ELSE "offline-user")
    ELSE IF w.h.user_id = Null THEN Raise(w, "AuthorizationError")
    ELSE Return(w, w.h.user_id)

\* mutant: a handle without a client passes
Mut_require_client_always(w) == Return(w, "client")

_require_supabase_client(w) ==
    IF w.h.mode # "supabase" \/ w.h.client = Null THEN Raise(w, "TeamServiceUnavailable")
    ELSE Return(w, "client")

RECURSIVE UniqueSlugLoop(_, _, _, _)
\* one pass of the while loop of _unique_team_slug once the select is answered
UniqueSlugAnswer(w, base, attempt, exclude_team_id) ==
    LET candidate == Candidate(base, attempt)
        e == Answer(w)
        rows == {t \in w.teams : t.slug = candidate}
        hd == _handle_slug_capability_error(w.h, e)
    IN IF e.raised
       THEN IF hd.handled THEN Return([w EXCEPT !.h = hd.h], Null)
            ELSE Raise(w, "TeamServiceUnavailable")
       ELSE IF rows = {} THEN Return(w, candidate)
       ELSE IF exclude_team_id # Null /\ \E r \in rows : r.id = exclude_team_id
       THEN Return(w, candidate)
       ELSE IF attempt + 1 > MaxSlugAttempts THEN Raise(w, "RuntimeError")
       ELSE UniqueSlugLoop(w, base, attempt + 1, exclude_team_id)

\* the while loop of _unique_team_slug
UniqueSlugLoop(w, base, attempt, exclude_team_id) ==
    UniqueSlugAnswer(Call(w, "_unique_team_slug", "teams", "select", {"slug"}, FALSE),
                     base, attempt, exclude_team_id)

_unique_team_slug(w, name, exclude_team_id) ==
    IF ~w.h.supports_team_slug THEN Return(w, Null)
    ELSE UniqueSlugLoop(w, slugify(name), 1, exclude_team_id)

\* the membership row as the select of _fetch_membership returns it
MembershipView(m, cols) ==
    [found |-> TRUE, role |-> IF "role" \in cols THEN m.role ELSE Null]

NoMembership == [found |-> FALSE, role |-> Null]

\* the optional columns the selects on users_teams name
MembershipColumns(h) ==
    (IF h.supports_user_team_role THEN {"role"} ELSE {})
    \cup (IF h.supports_user_team_invited_by THEN {"invited_by"} ELSE {})

RECURSIVE _fetch_membership(_, _, _)
\* one pass of the while loop of _fetch_membership once the select is answered
FetchMembershipAnswer(w, user_id, team_id) ==
    LET e == Answer(w)
        rows == {m \in w.users_teams : m.user_id = user_id /\ m.team_id = team_id}
        hd == _handle_users_team_column_error(w.h, e)
    IN IF e.raised
       THEN IF hd.handled
            THEN _fetch_membership([w EXCEPT !.h = hd.h], user_id, team_id)
            ELSE [w |-> w, exc |-> "TeamServiceUnavailable", ret |-> NoMembership]
       ELSE IF rows = {} THEN [w |-> w, exc |-> "none", ret |-> NoMembership]
       ELSE [w |-> w, exc |-> "none",
             ret |-> MembershipView(CHOOSE m \in rows : TRUE, Named(w))]

_fetch_membership(w, user_id, team_id) ==
    FetchMembershipAnswer(Call(w, "_fetch_membership", "users_teams", "select",
                               MembershipColumns(w.h), FALSE),
                          user_id, team_id)

\* the test of _assert_role on the membership m that _fetch_membership yields
RoleAllowed(m, allowed_roles) ==
    IF m.exc # "none" THEN Raise(m.w, m.exc)
    ELSE IF ~m.ret.found \/ m.ret.role \notin allowed_roles
    THEN Raise(m.w, "AuthorizationError")
    ELSE Return(m.w, Null)

\* mutant: any membership passes, whatever its role
Mut_assert_role_any_member(w, team_id, allowed_roles) ==
    IF ~w.h.supports_user_team_role THEN Return(w, Null)
    ELSE IF _require_user_id(w).exc # "none" THEN _require_user_id(w)
    ELSE RoleAllowed(_fetch_membership(w, w.h.user_id, team_id), Roles \cup {Null})

_assert_role(w, team_id, allowed_roles) ==
    IF ~w.h.supports_user_team_role THEN Return(w, Null)
    ELSE IF _require_user_id(w).exc # "none" THEN _require_user_id(w)
    ELSE RoleAllowed(_fetch_membership(w, w.h.user_id, team_id), allowed_roles)

-----------------------------------------------------------------------------
(* Team management *)

\* the optional columns of the payload of add_user_to_team
MemberPayloadColumns(h, invited_by) ==
    (IF h.supports_user_team_role THEN {"role"} ELSE {})
    \cup (IF h.supports_user_team_invited_by /\ invited_by # Null
          THEN {"invited_by"} ELSE {})

RECURSIVE add_user_to_team(_, _, _, _, _)
\* one pass of the while loop of add_user_to_team once the insert is answered
AddUserAnswer(w, user_id, team_id, role, invited_by) ==
    LET e == Answer(w)
        cols == Named(w)
        row == [user_id |-> user_id, team_id |-> team_id,
                role |-> IF "role" \in cols THEN role
                         ELSE IF "role" \in schema THEN "member" ELSE Null,
                invited_by |-> IF "invited_by" \in cols THEN invited_by ELSE Null]
        hd == _handle_users_team_column_error(w.h, e)
    IN IF ~e.raised
       THEN Return([w EXCEPT !.users_teams = @ \cup {row}], "true")
       ELSE IF Has(e, "foreign key") /\ Has(e, "users")
       THEN Raise(w, "AttributeError")   \* auth_manager has no get_current_user
       ELSE IF hd.handled
       THEN add_user_to_team([w EXCEPT !.h = hd.h], user_id, team_id, role, invited_by)
       ELSE IF IsDuplicate(e) THEN Raise(w, "DuplicateResourceError")
       ELSE Raise(w, "TeamServiceUnavailable")

add_user_to_team(w, user_id, team_id, role, invited_by) ==
    IF _require_supabase_client(w).exc # "none" THEN _require_supabase_client(w)
    ELSE AddUserAnswer(
            Call(w, "add_user_to_team", "users_teams", "insert",
                 MemberPayloadColumns(w.h, invited_by),
                 MembershipConflict(w, user_id, team_id)),
            user_id, team_id, role, invited_by)

FreshTeamId(w) == CHOOSE id \in TeamIds : \A t \in w.teams : t.id # id

\* the end of create_team: a is what add_user_to_team made of the creator
CreateTeamOwner(a, team_id) ==
    IF a.exc \in {"none", "DuplicateResourceError"} THEN Return(a.w, team_id)
    ELSE Raise(a.w, a.exc)

\* the optional keys of the payload of create_team; s is what _unique_team_slug
\* yielded on the handle h
TeamPayloadColumns(h, s, description) ==
    (IF description # Null /\ h.supports_team_description THEN {"description"} ELSE {})
    \cup (IF h.supports_team_slug /\ s.ret # Null THEN {"slug"} ELSE {})
    \cup (IF s.w.h.supports_team_created_by THEN {"created_by"} ELSE {})

RECURSIVE CreateTeamLoop(_, _, _, _, _)
\* one pass of the while loop of create_team once the insert is answered
CreateTeamAnswer(w, name, description, user_id, slug_value) ==
    LET e == Answer(w)
        cols == Named(w)
        row == [id |-> FreshTeamId(w), name |-> name,
                slug |-> IF "slug" \in cols THEN slug_value ELSE Null,
                description |-> IF "description" \in cols THEN description ELSE Null,
                created_by |-> IF "created_by" \in cols THEN user_id ELSE Null,
                deleted_at |-> 0 - 1]
        hs == _handle_slug_capability_error(w.h, e)
        ht == _handle_team_column_error(w.h, e)
    IN IF ~e.raised
       THEN CreateTeamOwner(add_user_to_team([w EXCEPT !.teams = @ \cup {row}],
                                             user_id, row.id, "owner", user_id),
                            row.id)
       ELSE IF hs.handled \/ ht.handled
       THEN CreateTeamLoop([w EXCEPT !.h = IF hs.handled THEN hs.h ELSE ht.h],
                           name, description, user_id, slug_value)
       ELSE IF IsDuplicate(e) THEN Raise(w, "DuplicateResourceError")
       ELSE Raise(w, "TeamServiceUnavailable")

\* the insert of create_team; h is the handle at the top of the pass and s what
\* _unique_team_slug yielded
CreateTeamInsert(h, s, name, description, user_id) ==
    IF s.exc # "none" THEN s
    ELSE CreateTeamAnswer(
            Call(s.w, "create_team", "teams", "insert",
                 TeamPayloadColumns(h, s, description),
                 "slug" \in TeamPayloadColumns(h, s, description)
                 /\ SlugConflict(s.w, s.ret, Null)),
            name, description, user_id, s.ret)

\* the while loop of create_team
CreateTeamLoop(w, name, description, user_id, slug_value) ==
    CreateTeamInsert(w.h,
                     IF w.h.supports_team_slug THEN _unique_team_slug(w, name, Null)
                     ELSE Return(w, slug_value),
                     name, description, user_id)

create_team(w, name, description) ==
    IF _require_supabase_client(w).exc # "none" THEN _require_supabase_client(w)
    ELSE IF _require_user_id(w).exc # "none" THEN _require_user_id(w)
    ELSE CreateTeamLoop(w, name, description, w.h.user_id, Null)

\* the end of update_team once the update is answered
UpdateTeamAnswer(w, team_id, name, description, new_slug) ==
    LET e == Answer(w)
        cols == Named(w)
        hit == {t \in w.teams : t.id = team_id}
        upd(t) == [t EXCEPT !.name = IF name # Null THEN name ELSE @,
                            !.slug = IF "slug" \in cols THEN new_slug ELSE @,
                            !.description = IF "description" \in cols
                                            THEN description ELSE @]
    IN IF e.raised
       THEN IF IsDuplicate(e) THEN Raise(w, "DuplicateResourceError")
            ELSE Raise(w, "TeamServiceUnavailable")
       ELSE Return([w EXCEPT !.teams = (@ \ hit) \cup {upd(t) : t \in hit}],
                   IF hit # {} THEN "true" ELSE "false")

\* the payload of update_team and its update: name_slug is the slug found for
\* the new name, s what _unique_team_slug yielded for the slug asked for
UpdateTeamPayload(name_slug, s, team_id, name, description) ==
    LET new_slug == IF s.ret # Null THEN s.ret ELSE name_slug
        cols == (IF description # Null THEN {"description"} ELSE {})
                \cup (IF new_slug # Null THEN {"slug"} ELSE {})
        dup == "slug" \in cols /\ SlugConflict(s.w, new_slug, team_id)
    IN IF s.exc # "none" THEN s
       ELSE IF name = Null /\ cols = {} THEN Return(s.w, "false")
       ELSE UpdateTeamAnswer(Call(s.w, "update_team", "teams", "update", cols, dup),
                             team_id, name, description, new_slug)

\* update_team from the slug key of updates on: s is what _unique_team_slug
\* yielded for the new name
UpdateTeamSlug(s, team_id, name, description, slug) ==
    IF s.exc # "none" THEN s
    ELSE UpdateTeamPayload(s.ret,
                           IF slug # Null /\ s.w.h.supports_team_slug
                           THEN _unique_team_slug(s.w, slug, team_id)
                           ELSE Return(s.w, Null),
                           team_id, name, description)

\* update_team after the authorization check a
UpdateTeamName(a, team_id, name, description, slug) ==
    IF a.exc # "none" THEN a
    ELSE IF _require_supabase_client(a.w).exc # "none"
    THEN _require_supabase_client(a.w)
    ELSE UpdateTeamSlug(IF name # Null THEN _unique_team_slug(a.w, name, team_id)
                        ELSE Return(a.w, Null),
                        team_id, name, description, slug)

\* update_team: a key of updates that is absent is Null
update_team(w, team_id, name, description, slug) ==
    UpdateTeamName(_assert_role(w, team_id, {"owner", "admin"}),
                   team_id, name, description, slug)

\* the hard delete of delete_team once it is answered; the backend removes the
\* team's membership and invitation rows with it
HardDeleteAnswer(w, team_id) ==
    IF Answer(w).raised THEN Raise(w, "TeamServiceUnavailable")
    ELSE Return([w EXCEPT
                   !.teams = {t \in @ : t.id # team_id},
                   !.users_teams = {m \in @ : m.team_id # team_id},
                   !.team_invitations = {i \in @ : i.team_id # team_id}],
                "true")

HardDelete(w, team_id) ==
    HardDeleteAnswer(Call(w, "delete_team.hard", "teams", "delete", {}, FALSE), team_id)

\* mutant: any error that names a column makes delete_team fall back
Mut_soft_delete_any_column(w, team_id) ==
    LET e == Answer(w)
        hit == {t \in w.teams : t.id = team_id}
    IN IF e.raised
       THEN IF Has(e, "column") THEN HardDelete(w, team_id)
            ELSE Raise(w, "TeamServiceUnavailable")
       ELSE Return([w EXCEPT !.teams = (@ \ hit)
                                \cup {[t EXCEPT !.deleted_at = now] : t \in hit}],
                   IF hit # {} THEN "true" ELSE "false")

\* the soft delete of delete_team once it is answered
SoftDeleteAnswer(w, team_id) ==
    LET e == Answer(w)
        hit == {t \in w.teams : t.id = team_id}
    IN IF e.raised
       THEN IF Has(e, "column") /\ Has(e, "deleted_at") THEN HardDelete(w, team_id)
            ELSE Raise(w, "TeamServiceUnavailable")
       ELSE Return([w EXCEPT !.teams = (@ \ hit)
                                \cup {[t EXCEPT !.deleted_at = now] : t \in hit}],
                   IF hit # {} THEN "true" ELSE "false")

\* delete_team after the authorization check a
SoftDelete(a, team_id) ==
    IF a.exc # "none" THEN a
    ELSE IF _require_supabase_client(a.w).exc # "none"
    THEN _require_supabase_client(a.w)
    ELSE SoftDeleteAnswer(Call(a.w, "delete_team", "teams", "update",
                               {"deleted_at"}, FALSE),
                          team_id)

\* mutant: an admin may delete the team, as for update_team
Mut_delete_team_admin(w, team_id) ==
    SoftDelete(_assert_role(w, team_id, {"owner", "admin"}), team_id)

delete_team(w, team_id) ==
    SoftDelete(_assert_role(w, team_id, {"owner"}), team_id)

\* the end of remove_user_from_team once the delete is answered
RemoveUserAnswer(w, user_id, team_id) ==
    LET hit == {m \in w.users_teams : m.user_id = user_id /\ m.team_id = team_id}
    IN IF Answer(w).raised THEN Raise(w, "TeamServiceUnavailable")
       ELSE Return([w EXCEPT !.users_teams = @ \ hit],
                   IF hit # {} THEN "true" ELSE "false")

\* remove_user_from_team after the authorization check a
RemoveUser(a, user_id, team_id) ==
    IF a.exc # "none" THEN a
    ELSE IF _require_supabase_client(a.w).exc # "none"
    THEN _require_supabase_client(a.w)
    ELSE RemoveUserAnswer(Call(a.w, "remove_user_from_team", "users_teams",
                               "delete", {}, FALSE),
                          user_id, team_id)

remove_user_from_team(w, user_id, team_id) ==
    IF _require_user_id(w).exc # "none" THEN _require_user_id(w)
    ELSE RemoveUser(IF w.h.user_id # user_id
                    THEN _assert_role(w, team_id, {"owner", "admin"})
                    ELSE Return(w, Null),
                    user_id, team_id)

\* the columns the teams select of list_user_teams names
TeamColumns(h) ==
    {"description"} \cup (IF h.supports_team_slug THEN {"slug"} ELSE {})

RECURSIVE ListTeamsLoop(_, _)
\* one pass of the second loop of list_user_teams once the select is answered
ListTeamsAnswer(w, team_ids) ==
    LET e == Answer(w)
        hs == _handle_slug_capability_error(w.h, e)
        ht == _handle_team_column_error(w.h, e)
    IN IF ~e.raised THEN Return(w, {t.id : t \in {x \in w.teams : x.id \in team_ids}})
       ELSE IF hs.handled \/ ht.handled
       THEN ListTeamsLoop([w EXCEPT !.h = IF hs.handled THEN hs.h ELSE ht.h], team_ids)
       ELSE [w |-> w, exc |-> "TeamServiceUnavailable", ret |-> {}]

\* the second loop of list_user_teams: the select on teams
ListTeamsLoop(w, team_ids) ==
    ListTeamsAnswer(Call(w, "list_user_teams.teams", "teams", "select",
                         TeamColumns(w.h), FALSE),
                    team_ids)

RECURSIVE list_user_teams(_, _)
\* one pass of the first loop of list_user_teams once the select is answered
ListMembershipsAnswer(w, user_id) ==
    LET e == Answer(w)
        hd == _handle_users_team_column_error(w.h, e)
        team_ids == {m.team_id : m \in {x \in w.users_teams : x.user_id = user_id}}
    IN IF e.raised
       THEN IF hd.handled THEN list_user_teams([w EXCEPT !.h = hd.h], user_id)
            ELSE [w |-> w, exc |-> "TeamServiceUnavailable", ret |-> {}]
       ELSE IF team_ids = {} THEN Return(w, {})
       ELSE ListTeamsLoop(w, team_ids)

\* list_user_teams: the ids of the teams returned
list_user_teams(w, user_id) ==
    IF _require_supabase_client(w).exc # "none"
    THEN [w |-> w, exc |-> _require_supabase_client(w).exc, ret |-> {}]
    ELSE ListMembershipsAnswer(Call(w, "list_user_teams", "users_teams", "select",
                                    MembershipColumns(w.h), FALSE),
                               user_id)

-----------------------------------------------------------------------------
(* Invitations. Times are integers; a redeemed_at or deleted_at that is    *)
(* not set is -1.                                                          *)

InvitationsUnavailable(w) == Raise(w, "TeamServiceUnavailable")

\* the end of create_team_invitation once the insert is answered
CreateInvitationAnswer(w, email, team_id, role, invite_code, expires_at) ==
    LET e == Answer(w)
        hd == _handle_invitations_error(w.h, e)
        row == [code |-> invite_code, team_id |-> team_id, email |-> email,
                role |-> role, invited_by |-> w.h.user_id, expires_at |-> expires_at,
                redeemed_at |-> 0 - 1]
    IN IF e.raised
       THEN IF hd.handled THEN InvitationsUnavailable([w EXCEPT !.h = hd.h])
            ELSE IF IsDuplicate(e) THEN Raise(w, "DuplicateResourceError")
            ELSE Raise(w, "TeamServiceUnavailable")
       ELSE Return([w EXCEPT !.team_invitations = @ \cup {row}], invite_code)

\* create_team_invitation once the lookup of an unredeemed invitation for the
\* same team and email is answered, and its insert
CreateInvitationInsert(w, email, team_id, role, invite_code, expires_at) ==
    LET e == Answer(w)
        existing == {i \in w.team_invitations :
                        i.team_id = team_id /\ i.email = email /\ i.redeemed_at < 0}
        hd == _handle_invitations_error(w.h, e)
    IN IF ~e.raised /\ existing # {} THEN Raise(w, "DuplicateResourceError")
       ELSE IF e.raised /\ hd.handled
       THEN InvitationsUnavailable([w EXCEPT !.h = hd.h])
       ELSE CreateInvitationAnswer(
               Call(w, "create_team_invitation", "team_invitations", "insert",
                    {"team_invitations"},
                    CodeConflict(w, invite_code)),
               email, team_id, role, invite_code, expires_at)

\* create_team_invitation after the authorization check a
CreateInvitationLookup(a, email, team_id, role, invite_code, expires_at) ==
    IF a.exc # "none" THEN a
    ELSE IF _require_user_id(a.w).exc # "none" THEN _require_user_id(a.w)
    ELSE IF ~a.w.h.supports_team_invitations THEN InvitationsUnavailable(a.w)
    ELSE IF _require_supabase_client(a.w).exc # "none"
    THEN _require_supabase_client(a.w)
    ELSE CreateInvitationInsert(
            Call(a.w, "create_team_invitation.lookup", "team_invitations", "select",
                 {"team_invitations"}, FALSE),
            email, team_id, role, invite_code, expires_at)

create_team_invitation(w, email, team_id, role, invite_code, expires_at) ==
    CreateInvitationLookup(_assert_role(w, team_id, {"owner", "admin"}),
                           email, team_id, role, invite_code, expires_at)

\* the end of list_team_invitations once the select is answered
ListInvitationsAnswer(w, team_id) ==
    LET e == Answer(w)
        hd == _handle_invitations_error(w.h, e)
    IN IF e.raised
       THEN [w |-> [w EXCEPT !.h = hd.h], exc |-> "TeamServiceUnavailable", ret |-> {}]
       ELSE Return(w, {i.code : i \in {x \in w.team_invitations : x.team_id = team_id}})

\* list_team_invitations after the authorization check a
ListInvitations(a, team_id) ==
    IF a.exc # "none" THEN [w |-> a.w, exc |-> a.exc, ret |-> {}]
    ELSE IF ~a.w.h.supports_team_invitations
    THEN [w |-> a.w, exc |-> "TeamServiceUnavailable", ret |-> {}]
    ELSE IF _require_supabase_client(a.w).exc # "none"
    THEN [w |-> a.w, exc |-> _require_supabase_client(a.w).exc, ret |-> {}]
    ELSE ListInvitationsAnswer(
            Call(a.w, "list_team_invitations", "team_invitations", "select",
                 {"team_invitations"}, FALSE),
            team_id)

\* list_team_invitations: the codes of the invitations returned
list_team_invitations(w, team_id) ==
    ListInvitations(_assert_role(w, team_id, {"owner", "admin"}), team_id)

\* the end of revoke_team_invitation once the delete is answered
RevokeAnswer(w, code) ==
    LET e == Answer(w)
        hd == _handle_invitations_error(w.h, e)
        hit == {i \in w.team_invitations : i.code = code}
    IN IF e.raised THEN InvitationsUnavailable([w EXCEPT !.h = hd.h])
       ELSE Return([w EXCEPT !.team_invitations = @ \ hit],
                   IF hit # {} THEN "true" ELSE "false")

revoke_team_invitation(w, code) ==
    IF ~w.h.supports_team_invitations THEN InvitationsUnavailable(w)
    ELSE IF _require_supabase_client(w).exc # "none" THEN _require_supabase_client(w)
    ELSE RevokeAnswer(Call(w, "revoke_team_invitation", "team_invitations", "delete",
                           {"team_invitations"}, FALSE),
                      code)

\* mutant: the comparison of the expiry with the clock is reversed
Mut_expiry_reversed(invite) == now < invite.expires_at

\* the expiry test of accept_team_invitation
IsExpired(invite) == invite.expires_at < now

\* the end of accept_team_invitation once the update of redeemed_at is answered
RedeemAnswer(w, invite) ==
    LET hit == {i \in w.team_invitations : i.code = invite.code}
    IN IF Answer(w).raised THEN Return(w, invite.team_id)
       ELSE Return([w EXCEPT !.team_invitations =
                       (@ \ hit) \cup {[i EXCEPT !.redeemed_at = now] : i \in hit}],
                   invite.team_id)

\* mutant: a user who is already a member cannot accept
Mut_redeem_duplicate_fatal(a, invite) ==
    IF a.exc # "none" THEN Raise(a.w, a.exc)
    ELSE RedeemAnswer(Call(a.w, "accept_team_invitation.redeem", "team_invitations",
                           "update", {"team_invitations"}, FALSE),
                      invite)

\* accept_team_invitation after add_user_to_team, which ended as a
Redeem(a, invite) ==
    IF a.exc \notin {"none", "DuplicateResourceError"} THEN Raise(a.w, a.exc)
    ELSE RedeemAnswer(Call(a.w, "accept_team_invitation.redeem", "team_invitations",
                           "update", {"team_invitations"}, FALSE),
                      invite)

\* accept_team_invitation from the invitation row on
AcceptInvite(w, invite, target_user_id) ==
    Redeem(add_user_to_team(w, target_user_id, invite.team_id, invite.role,
                            invite.invited_by),
           invite)

\* accept_team_invitation once the select of the invitation is answered
AcceptLookupAnswer(w, code, target_user_id) ==
    LET e == Answer(w)
        hd == _handle_invitations_error(w.h, e)
        rows == {i \in w.team_invitations : i.code = code}
        invite == CHOOSE i \in rows : TRUE
    IN IF e.raised THEN InvitationsUnavailable([w EXCEPT !.h = hd.h])
       ELSE IF rows = {} THEN Return(w, Null)
       ELSE IF IsExpired(invite) THEN Return(w, Null)
       ELSE AcceptInvite(w, invite, target_user_id)

\* accept_team_invitation: the team id of the result, Null for None
accept_team_invitation(w, code, user_id) ==
    IF user_id = Null /\ _require_user_id(w).exc # "none" THEN _require_user_id(w)
    ELSE IF ~w.h.supports_team_invitations THEN InvitationsUnavailable(w)
    ELSE IF _require_supabase_client(w).exc # "none" THEN _require_supabase_client(w)
    ELSE AcceptLookupAnswer(
            Call(w, "accept_team_invitation", "team_invitations", "select",
                 {"team_invitations"}, FALSE),
            code, IF user_id # Null THEN user_id ELSE w.h.user_id)

-----------------------------------------------------------------------------
(* Team identifiers *)

\* is_uuid: the team ids of the model are the UUIDs
is_uuid(identifier) == identifier \in TeamIds

\* ILIKE on a pattern without wildcards compares the texts in lower case
lower(text) == IF text = "Team A" THEN "team a" ELSE text

\* the select on teams by name is answered: a failure is passed over
GetTeamByName(w, identifier) ==
    IF Answer(w).raised \/ \A t \in w.teams : lower(t.name) # lower(identifier)
    THEN Return(w, Null)
    ELSE Return(w, (CHOOSE t \in w.teams : lower(t.name) = lower(identifier)).id)

\* _fetch_team("slug", identifier) is answered
GetTeamBySlug(w, identifier) ==
    IF Answer(w).raised /\ ~_handle_slug_capability_error(w.h, Answer(w)).handled
    THEN Raise(w, "TeamServiceUnavailable")
    ELSE IF ~Answer(w).raised /\ \E t \in w.teams : t.slug = identifier
    THEN Return(w, (CHOOSE t \in w.teams : t.slug = identifier).id)
    ELSE GetTeamByName(
            Call([w EXCEPT !.h = _handle_slug_capability_error(w.h, Answer(w)).h],
                 "_fetch_team_by_identifier", "teams", "select", {}, FALSE),
            identifier)

\* mutant: the name is looked up without the slug being tried
Mut_lookup_skips_slug(w, identifier, found) ==
    IF found THEN Return(w, identifier)
    ELSE GetTeamByName(Call(w, "_fetch_team_by_identifier", "teams", "select", {}, FALSE),
                       identifier)

\* _fetch_team_by_identifier after the lookup by id: w is the world, found tells
\* whether the lookup found the team
GetTeamLookup(w, identifier, found) ==
    IF found THEN Return(w, identifier)
    ELSE IF w.h.supports_team_slug
    THEN GetTeamBySlug(Call(w, "_fetch_team", "teams", "select", {"slug"}, FALSE),
                       identifier)
    ELSE GetTeamByName(Call(w, "_fetch_team_by_identifier", "teams", "select", {}, FALSE),
                       identifier)

\* _fetch_team("id", identifier) is answered
GetTeamById(w, identifier) ==
    IF Answer(w).raised THEN Raise(w, "TeamServiceUnavailable")
    ELSE GetTeamLookup(w, identifier, \E t \in w.teams : t.id = identifier)

\* _fetch_team_by_identifier: the id of the team found, Null when there is none
\* and for no identifier
_fetch_team_by_identifier(w, identifier) ==
    IF identifier \in {Null, ""} \/ w.h.mode # "supabase" THEN Return(w, Null)
    ELSE IF _require_supabase_client(w).exc # "none" THEN _require_supabase_client(w)
    ELSE IF is_uuid(identifier)
    THEN GetTeamById(Call(w, "_fetch_team", "teams", "select", {}, FALSE), identifier)
    ELSE GetTeamLookup(w, identifier, FALSE)

\* _resolve_team_id
_resolve_team_id(w, identifier) ==
    IF w.h.mode = "sqlite" THEN Return(w, identifier)
    ELSE _fetch_team_by_identifier(w, identifier)

-----------------------------------------------------------------------------
(* Notes. A text (a tag, the tags column of the local store) is the         *)
(* sequence of its characters, so that stripping, sorting, joining,         *)
(* splitting and LIKE are computed as Python and SQLite compute them.       *)

\* the characters of the texts, in code point order
Alphabet == <<" ", ",", "a", "b">>

\* the NULL of a column of the local store
NullText == <<"NULL">>

NoteIds == {"n1", "n2", "n3"}

TagIds == {"g1", "g2", "g3", "g4"}
ProjectIds == {"p1", "p2"}

\* the notes that are searched: title, body, tags and team, and the queries
SearchInputs ==
    {[title |-> <<"a">>, body |-> <<"b">>, tags |-> <<>>, team_id |-> Null],
     [title |-> <<"b">>, body |-> <<"a", " ", "b">>, tags |-> <<>>, team_id |-> "t1"],
     [title |-> <<"b", "a">>, body |-> <<"b", "a">>, tags |-> <<<<"a">>>>,
      team_id |-> Null]}
Queries == {<<"a">>, <<"b">>}

\* what a team is asked for with: the id of a team of the backend, an id no
\* team has, a slug, and the name of no team
TeamIdentifiers == {"t1", "t2", "team-a", "team-b"}

\* the tags arguments of add_note: none, one tag, a tag another one is a prefix
\* of, an unsorted collection with a repetition, tags to strip and to drop, and
\* a tag with a comma in it
TagInputs ==
    {<<>>, << <<"a">> >>, << <<"a", "b">> >>, << <<"b">>, <<"a">>, <<"b">> >>,
     << <<" ", "a", " ">>, <<" ">> >>, << <<"a", ",", "b">> >>}

RECURSIVE strip(_)
\* str.strip
strip(s) ==
    IF s = <<>> THEN s
    ELSE IF Head(s) = " " THEN strip(Tail(s))
    ELSE IF s[Len(s)] = " " THEN strip(SubSeq(s, 1, Len(s) - 1))
    ELSE s

RECURSIVE Before(_, _)
\* s < t for two Python strings
Before(s, t) ==
    IF t = <<>> THEN FALSE
    ELSE IF s = <<>> THEN TRUE
    ELSE IF Head(s) = Head(t) THEN Before(Tail(s), Tail(t))
    ELSE \E i, j \in 1..Len(Alphabet) :
            i < j /\ Alphabet[i] = Head(s) /\ Alphabet[j] = Head(t)

\* sorted({t.strip() for t in tags if t.strip()})
CleanTags(tag_input) ==
    CHOOSE q \in UNION {[1..n -> {strip(tag_input[i]) : i \in 1..Len(tag_input)} \ {<<>>}] :
                        n \in 0..Len(tag_input)} :
       /\ \A i, j \in 1..Len(q) : i < j => Before(q[i], q[j])
       /\ \A i \in 1..Len(tag_input) :
             strip(tag_input[i]) # <<>> => \E k \in 1..Len(q) : q[k] = strip(tag_input[i])

RECURSIVE join(_)
\* ",".join(q)
join(q) ==
    IF q = <<>> THEN <<>>
    ELSE IF Len(q) = 1 THEN q[1]
    ELSE q[1] \o <<",">> \o join(Tail(q))

RECURSIVE split(_, _)
\* text.split(","): done is the part of the current piece read so far
split(text, done) ==
    IF text = <<>> THEN <<done>>
    ELSE IF Head(text) = "," THEN <<done>> \o split(Tail(text), <<>>)
    ELSE split(Tail(text), Append(done, Head(text)))

\* text LIKE '%' || pattern || '%'
Like(text, pattern) ==
    /\ text # NullText
    /\ \E i \in 1..(Len(text) - Len(pattern) + 1) :
          SubSeq(text, i, i + Len(pattern) - 1) = pattern

RECURSIVE StripAll(_)
\* [tag.strip() for tag in pieces if tag.strip()]
StripAll(pieces) ==
    IF pieces = <<>> THEN <<>>
    ELSE IF strip(Head(pieces)) = <<>> THEN StripAll(Tail(pieces))
    ELSE <<strip(Head(pieces))>> \o StripAll(Tail(pieces))

\* the tags of Note.from_row: row.get("tags") is None when the row has no such
\* key
from_row(row) ==
    IF "tags" \notin DOMAIN row THEN <<>>
    ELSE IF row.tags = NullText \/ row.tags = <<>> THEN <<>>
    ELSE StripAll(split(row.tags, <<>>))

\* uuid4 for a note
FreshNoteId(w) ==
    CHOOSE id \in NoteIds :
       /\ \A k \in 1..Len(w.notes) : w.notes[k].id # id
       /\ \A p \in Paths : \A k \in 1..Len(w.sqlite[p]) : w.sqlite[p][k].id # id

\* uuid4 for a tag
FreshTagId(w) == CHOOSE id \in TagIds : \A t \in w.tags : t.id # id

\* None for a limit
NoLimit == 0 - 1

\* the rows in the order of ORDER BY created_at DESC; rows of the same
\* created_at come as they were stored when tie is "stored" and the other way
\* round otherwise (the engine is free in that)
OrderBy(rows, tie) ==
    [k \in 1..Len(rows) |->
       rows[(CHOOSE q \in [1..Len(rows) -> 1..Len(rows)] :
               \A i, j \in 1..Len(rows) :
                  i < j => \/ rows[q[i]].created_at > rows[q[j]].created_at
                           \/ /\ rows[q[i]].created_at = rows[q[j]].created_at
                              /\ IF tie = "stored" THEN q[i] < q[j] ELSE q[i] > q[j])[k]]]

RECURSIVE Filter(_, _)
\* the rows whose id is one of ids
Filter(rows, ids) ==
    IF rows = <<>> THEN <<>>
    ELSE IF Head(rows).id \in ids THEN <<Head(rows)>> \o Filter(Tail(rows), ids)
    ELSE Filter(Tail(rows), ids)

\* LIMIT, which the queries carry when the limit is a value Python takes for true
Limit(rows, limit) ==
    IF limit # NoLimit /\ limit # 0 /\ limit < Len(rows) THEN SubSeq(rows, 1, limit)
    ELSE rows

\* a query of the local store fails on a handle that is closed
Closed(w) == [w |-> w, exc |-> "AssertionError", ret |-> <<>>]

\* an identifier or a path Python takes for true
Given(v) == v \notin {Null, ""}

\* _sqlite_add_note: input is no column, it records what the note was added with
_sqlite_add_note(w, title, body, tag_input, team_id) ==
    IF w.h.sqlite_conn = Null THEN Raise(w, "AssertionError")
    ELSE Return([w EXCEPT !.sqlite[w.h.db_path] =
                    Append(@, [id |-> FreshNoteId(w), title |-> title, body |-> body,
                               tags |-> IF tag_input # <<>>
                                        THEN join(CleanTags(tag_input)) ELSE NullText,
                               team_id |-> team_id,
                               created_at |-> now, input |-> tag_input])],
                FreshNoteId(w))

\* _sqlite_get_note: the rows found
_sqlite_get_note(w, note_id) ==
    IF w.h.sqlite_conn = Null THEN Closed(w)
    ELSE [w |-> w, exc |-> "none", ret |-> Filter(w.sqlite[w.h.db_path], {note_id})]

\* the ids of the rows of the local store with tags LIKE %tag%
Tagged(rows, tag) == {rows[k].id : k \in {k \in 1..Len(rows) : Like(rows[k].tags, tag)}}

\* mutant: the rows of any team pass the filter
Mut_of_team_any(rows, team_id) ==
    {rows[k].id : k \in {k \in 1..Len(rows) : rows[k].team_id # Null}}

\* the ids of the rows with team_id = ?
OfTeam(rows, team_id) ==
    {rows[k].id : k \in {k \in 1..Len(rows) : rows[k].team_id = team_id}}

\* the ids of all the rows
AllOf(rows) == {rows[k].id : k \in 1..Len(rows)}

\* _sqlite_list_notes: no tag and the empty tag are <<>>
_sqlite_list_notes(w, limit, tag, team_id, tie) ==
    IF w.h.sqlite_conn = Null THEN Closed(w)
    ELSE [w |-> w, exc |-> "none",
          ret |-> Limit(Filter(OrderBy(w.sqlite[w.h.db_path], tie),
                               (IF tag = <<>> THEN AllOf(w.sqlite[w.h.db_path])
                                ELSE Tagged(w.sqlite[w.h.db_path], tag))
                               \cap (IF Given(team_id)
                                     THEN OfTeam(w.sqlite[w.h.db_path], team_id)
                                     ELSE AllOf(w.sqlite[w.h.db_path]))),
                        limit)]

\* the backend's default for notes.created_at
CreatedAt == now

_handle_notes_column_error(h, e) ==
    IF /\ h.supports_note_team_id
       /\ Has(e, "notes") /\ Has(e, "team_id")
       /\ (Has(e, "does not exist") \/ Has(e, "unknown column") \/ Has(e, "column"))
    THEN [h |-> [h EXCEPT !.supports_note_team_id = FALSE], handled |-> TRUE]
    ELSE [h |-> h, handled |-> FALSE]

\* the end of _ensure_team: a is what the lookup of the identifier yields
EnsureTeamFound(a, team_identifier) ==
    IF a.exc # "none" \/ a.ret # Null THEN a
    ELSE IF is_uuid(team_identifier) THEN Raise(a.w, "TeamServiceUnavailable")
    ELSE create_team(a.w, team_identifier, Null)

_ensure_team(w, team_identifier) ==
    IF w.h.mode = "sqlite" THEN Return(w, team_identifier)
    ELSE EnsureTeamFound(_fetch_team_by_identifier(w, team_identifier), team_identifier)

\* uuid4 for a project
FreshProjectId(w) == CHOOSE id \in ProjectIds : \A p \in w.projects : p.id # id

\* the end of _ensure_project: the insert into projects is answered
EnsureProjectAnswer(w, project_path, team_uuid) ==
    IF Answer(w).raised THEN Raise(w, "Exception")
    ELSE Return([w EXCEPT !.projects =
                    @ \cup {[id |-> FreshProjectId(w), absolute_path |-> project_path,
                             team_id |-> team_uuid]}],
                FreshProjectId(w))

\* the insert of the new project; a is what _ensure_team yields, no team when
\* there is no team identifier
EnsureProjectInsert(a, project_path) ==
    IF a.exc # "none" THEN a
    ELSE EnsureProjectAnswer(Call(a.w, "_ensure_project.insert", "projects", "insert",
                                  {}, FALSE),
                             project_path, a.ret)

\* the select on projects by path is answered
EnsureProjectSelect(w, project_path, team_id) ==
    IF Answer(w).raised THEN Raise(w, "Exception")
    ELSE IF \E p \in w.projects : p.absolute_path = project_path
    THEN Return(w, (CHOOSE p \in w.projects : p.absolute_path = project_path).id)
    ELSE EnsureProjectInsert(IF Given(team_id) THEN _ensure_team(w, team_id)
                             ELSE Return(w, Null),
                             project_path)

\* _ensure_project: the id of the project of the path
_ensure_project(w, project_path, team_id) ==
    IF _require_supabase_client(w).exc # "none" THEN _require_supabase_client(w)
    ELSE EnsureProjectSelect(Call(w, "_ensure_project", "projects", "select", {}, FALSE),
                             project_path, team_id)

RECURSIVE _add_tags_to_note(_, _, _)
\* mutant: a link that fails takes the note and its links back
Mut_tag_link_rollback(w, note_id, tag_list, tag_id) ==
    IF Answer(w).raised
    THEN Raise([w EXCEPT !.notes = SubSeq(@, 1, Len(@) - 1),
                         !.notes_tags = {l \in @ : l.note_id # note_id}],
               "Exception")
    ELSE _add_tags_to_note([w EXCEPT !.notes_tags =
                               @ \cup {[note_id |-> note_id, tag_id |-> tag_id]}],
                           note_id, Tail(tag_list))

\* the end of one pass of the loop of _add_tags_to_note: the link is answered
TagLinkAnswer(w, note_id, tag_list, tag_id) ==
    IF Answer(w).raised THEN Raise(w, "Exception")
    ELSE _add_tags_to_note([w EXCEPT !.notes_tags =
                               @ \cup {[note_id |-> note_id, tag_id |-> tag_id]}],
                           note_id, Tail(tag_list))

\* the insert into notes_tags; a is the world once the tag has a row
TagLink(a, note_id, tag_list, tag_id) ==
    IF a.exc # "none" THEN a
    ELSE TagLinkAnswer(Call(a.w, "_add_tags_to_note.link", "notes_tags", "insert",
                            {}, FALSE),
                       note_id, tag_list, tag_id)

\* the insert into tags is answered
TagInsertAnswer(w, name, tag_id) ==
    IF Answer(w).raised THEN Raise(w, "Exception")
    ELSE Return([w EXCEPT !.tags = @ \cup {[id |-> tag_id, name |-> name]}], tag_id)

\* the select on tags is answered
TagSelectAnswer(w, note_id, tag_list) ==
    IF Answer(w).raised THEN Raise(w, "Exception")
    ELSE IF \E t \in w.tags : t.name = Head(tag_list)
    THEN TagLink(Return(w, Null), note_id, tag_list,
                 (CHOOSE t \in w.tags : t.name = Head(tag_list)).id)
    ELSE TagLink(TagInsertAnswer(Call(w, "_add_tags_to_note.insert", "tags", "insert",
                                      {}, FALSE),
                                 Head(tag_list), FreshTagId(w)),
                 note_id, tag_list, FreshTagId(w))

\* _add_tags_to_note: tag_list is what is left of the sorted tags
_add_tags_to_note(w, note_id, tag_list) ==
    IF tag_list = <<>> THEN Return(w, note_id)
    ELSE TagSelectAnswer(Call(w, "_add_tags_to_note", "tags", "select", {}, FALSE),
                         note_id, tag_list)

\* the row the backend stores for note_data: a note without the team_id key has
\* no team
NoteRow(note_data) == [created_at |-> CreatedAt] @@ note_data

RECURSIVE AddNoteLoop(_, _)
\* one pass of the while loop of add_note once the insert is answered; input is
\* no key of note_data, it records the tags the note was added with
AddNoteAnswer(w, note_data) ==
    IF ~Answer(w).raised
    THEN IF note_data.input # <<>>
         THEN _add_tags_to_note([w EXCEPT !.notes = Append(@, NoteRow(note_data))],
                                note_data.id, CleanTags(note_data.input))
         ELSE Return([w EXCEPT !.notes = Append(@, NoteRow(note_data))], note_data.id)
    ELSE IF Has(Answer(w), "queue") THEN Raise(w, "Exception")
    ELSE IF Has(Answer(w), "duplicate") /\ Has(Answer(w), "id")
    THEN AddNoteLoop(w, [note_data EXCEPT !.id = FreshNoteId(w)])
    ELSE IF _handle_notes_column_error(w.h, Answer(w)).handled
    THEN AddNoteLoop([w EXCEPT !.h = _handle_notes_column_error(w.h, Answer(w)).h],
                     [note_data EXCEPT !.team_id = Null])
    ELSE Raise(w, "TeamServiceUnavailable")

\* the while loop of add_note
AddNoteLoop(w, note_data) ==
    AddNoteAnswer(Call(w, "add_note", "notes", "insert",
                       IF note_data.team_id # Null THEN {"note_team_id"} ELSE {}, FALSE),
                  note_data)

\* add_note from the insert on: b is what the resolution of the team yields
AddNoteInsert(b, project_id, title, body, tag_input) ==
    IF b.exc # "none" THEN b
    ELSE IF _require_user_id(b.w).exc # "none" THEN _require_user_id(b.w)
    ELSE IF _require_supabase_client(b.w).exc # "none" THEN _require_supabase_client(b.w)
    ELSE AddNoteLoop(b.w, [id |-> FreshNoteId(b.w), title |-> title, body |-> body,
                           user_id |-> b.w.h.user_id, project_id |-> project_id,
                           team_id |-> IF b.w.h.supports_note_team_id THEN b.ret
                                       ELSE Null,
                           input |-> tag_input])

\* the team of the note: b is what _resolve_team_id yields
AddNoteResolved(b, team_id) ==
    IF b.exc = "TeamServiceUnavailable" \/ (b.exc = "none" /\ b.ret = Null)
    THEN Return(b.w, IF is_uuid(team_id) THEN team_id ELSE Null)
    ELSE b

\* add_note once the project is there: a is what _ensure_project yields, no
\* project when there is no project path
AddNoteTeam(a, title, body, tag_input, team_id) ==
    IF a.exc # "none" THEN a
    ELSE AddNoteInsert(IF Given(team_id)
                       THEN AddNoteResolved(_resolve_team_id(a.w, team_id), team_id)
                       ELSE Return(a.w, Null),
                       a.ret, title, body, tag_input)

add_note(w, title, body, tag_input, project_path, team_id) ==
    IF w.h.mode = "sqlite" THEN _sqlite_add_note(w, title, body, tag_input, team_id)
    ELSE AddNoteTeam(IF Given(project_path)
                     THEN _ensure_project(w, project_path, team_id)
                     ELSE Return(w, Null),
                     title, body, tag_input, team_id)

\* get_note once the select is answered: the rows found
GetNoteAnswer(w, note_id) ==
    IF Answer(w).raised THEN [w |-> w, exc |-> "Exception", ret |-> <<>>]
    ELSE [w |-> w, exc |-> "none", ret |-> Filter(w.notes, {note_id})]

get_note(w, note_id) ==
    IF w.h.mode = "sqlite" THEN _sqlite_get_note(w, note_id)
    ELSE IF _require_supabase_client(w).exc # "none"
    THEN [w |-> w, exc |-> _require_supabase_client(w).exc, ret |-> <<>>]
    ELSE GetNoteAnswer(Call(w, "get_note", "notes", "select", {}, FALSE), note_id)

\* the ids of the notes of the projects of project_ids, of all the notes when
\* there is no project
InProjects(rows, project_ids) ==
    IF project_ids = {} THEN AllOf(rows)
    ELSE {rows[k].id : k \in {k \in 1..Len(rows) : rows[k].project_id \in project_ids}}

RECURSIVE list_notes(_, _, _, _, _)
\* the end of list_notes: the select on notes is answered; q holds the team_id
\* (Null for none) and the project ids the query filters on, and the filter on
\* the note id, NoteIds when there is none
ListNotesAnswer(w, limit, tag, team_id, tie, q) ==
    IF ~Answer(w).raised
    THEN [w |-> w, exc |-> "none",
          ret |-> Limit(Filter(OrderBy(w.notes, tie),
                               q.ids \cap InProjects(w.notes, q.project_ids)
                               \cap (IF "note_team_id" \in Named(w)
                                     THEN OfTeam(w.notes, q.team_id)
                                     ELSE AllOf(w.notes))),
                        limit)]
    ELSE IF _handle_notes_column_error(w.h, Answer(w)).handled
    THEN list_notes([w EXCEPT !.h = _handle_notes_column_error(w.h, Answer(w)).h],
                    limit, tag, team_id, tie)
    ELSE [w |-> w, exc |-> "TeamServiceUnavailable", ret |-> <<>>]

\* the select on notes
ListNotesQuery(w, limit, tag, team_id, tie, q) ==
    ListNotesAnswer(Call(w, "list_notes", "notes", "select",
                         IF q.team_id # Null /\ w.h.supports_note_team_id
                         THEN {"note_team_id"} ELSE {}, FALSE),
                    limit, tag, team_id, tie, q)

\* the select on notes_tags is answered
ListLinksAnswer(w, limit, tag, team_id, tie, q, tag_id) ==
    IF Answer(w).raised \/ \A l \in w.notes_tags : l.tag_id # tag_id
    THEN [w |-> w, exc |-> "none", ret |-> <<>>]
    ELSE ListNotesQuery(w, limit, tag, team_id, tie,
                        [q EXCEPT !.ids = {l.note_id : l \in {x \in w.notes_tags :
                                                                x.tag_id = tag_id}}])

\* the select on tags is answered
ListTagAnswer(w, limit, tag, team_id, tie, q) ==
    IF Answer(w).raised \/ \A t \in w.tags : t.name # tag
    THEN [w |-> w, exc |-> "none", ret |-> <<>>]
    ELSE ListLinksAnswer(Call(w, "list_notes.links", "notes_tags", "select", {}, FALSE),
                         limit, tag, team_id, tie, q,
                         (CHOOSE t \in w.tags : t.name = tag).id)

\* list_notes from the tag on
ListNotesTag(w, limit, tag, team_id, tie, q) ==
    IF tag # <<>>
    THEN ListTagAnswer(Call(w, "list_notes.tag", "tags", "select", {}, FALSE),
                       limit, tag, team_id, tie, q)
    ELSE ListNotesQuery(w, limit, tag, team_id, tie, q)

\* _project_ids_for_team once the select on projects is answered: a failure
\* leaves list_notes without project ids
ListProjectsAnswer(w, limit, tag, team_id, tie, resolved_team_id) ==
    ListNotesTag(w, limit, tag, team_id, tie,
                 [team_id |-> resolved_team_id, ids |-> NoteIds,
                  project_ids |-> IF Answer(w).raised THEN {}
                                  ELSE {p.id : p \in {x \in w.projects :
                                                        x.team_id = resolved_team_id}}])

\* list_notes once the team is resolved: a is what _resolve_team_id yields; a
\* team that is not resolved is the identifier itself
ListNotesTeam(a, limit, tag, team_id, tie) ==
    IF a.exc # "none" THEN [w |-> a.w, exc |-> a.exc, ret |-> <<>>]
    ELSE ListProjectsAnswer(Call(a.w, "_project_ids_for_team", "projects", "select",
                                 {}, FALSE),
                            limit, tag, team_id, tie,
                            IF a.ret # Null THEN a.ret ELSE team_id)

\* list_notes: no tag and the empty tag are <<>>, no team is Null
list_notes(w, limit, tag, team_id, tie) ==
    IF w.h.mode = "sqlite" THEN _sqlite_list_notes(w, limit, tag, team_id, tie)
    ELSE IF _require_supabase_client(w).exc # "none"
    THEN [w |-> w, exc |-> _require_supabase_client(w).exc, ret |-> <<>>]
    ELSE IF Given(team_id)
    THEN ListNotesTeam(_resolve_team_id(w, team_id), limit, tag, team_id, tie)
    ELSE ListNotesTag(w, limit, tag, team_id, tie,
                      [team_id |-> Null, ids |-> NoteIds, project_ids |-> {}])

RECURSIVE Words(_, _)
\* the words of a text: done is the part of the current word read so far
Words(text, done) ==
    IF text = <<>> THEN {done} \ {<<>>}
    ELSE IF Head(text) = " " THEN ({done} \ {<<>>}) \cup Words(Tail(text), <<>>)
    ELSE Words(Tail(text), Append(done, Head(text)))

\* text_search on body_tsv: the ids of the rows whose body has the query for a word
BodyMatches(rows, query) ==
    {rows[k].id : k \in {k \in 1..Len(rows) : query \in Words(rows[k].body, <<>>)}}

\* ilike on the title with %query%
TitleMatches(rows, query) ==
    {rows[k].id : k \in {k \in 1..Len(rows) : Like(rows[k].title, query)}}

\* IFNULL(tags, '')
IfNull(text) == IF text = NullText THEN <<>> ELSE text

\* the WHERE clause of _sqlite_search_notes without the team
LocalMatches(rows, query) ==
    {rows[k].id : k \in {k \in 1..Len(rows) :
                           \/ Like(rows[k].title, query)
                           \/ Like(rows[k].body, query)
                           \/ Like(IfNull(rows[k].tags), query)}}

_sqlite_search_notes(w, query, team_id, tie) ==
    IF w.h.sqlite_conn = Null THEN Closed(w)
    ELSE [w |-> w, exc |-> "none",
          ret |-> Filter(OrderBy(w.sqlite[w.h.db_path], tie),
                         LocalMatches(w.sqlite[w.h.db_path], query)
                         \cap (IF Given(team_id)
                               THEN OfTeam(w.sqlite[w.h.db_path], team_id)
                               ELSE AllOf(w.sqlite[w.h.db_path])))]

\* the ids of the notes the team and the projects of a query of search_notes
\* let pass; w is the world once the query is answered
Scoped(w, q) ==
    InProjects(w.notes, q.project_ids)
    \cap (IF "note_team_id" \in Named(w) THEN OfTeam(w.notes, q.team_id)
          ELSE AllOf(w.notes))

\* mutant: the title matches are appended whole
Mut_combine_appends(body_rows, title_rows) == body_rows \o title_rows

\* the loop that combines the results of the two queries
Combine(body_rows, title_rows) ==
    body_rows \o Filter(title_rows, AllOf(title_rows) \ AllOf(body_rows))

RECURSIVE search_notes(_, _, _, _)
\* the end of search_notes: the query on the title is answered
SearchTitleAnswer(w, query, team_id, tie, q, body_rows) ==
    IF ~Answer(w).raised
    THEN [w |-> w, exc |-> "none",
          ret |-> Combine(body_rows,
                          Filter(OrderBy(w.notes, tie),
                                 TitleMatches(w.notes, query) \cap Scoped(w, q)))]
    ELSE IF _handle_notes_column_error(w.h, Answer(w)).handled
    THEN search_notes([w EXCEPT !.h = _handle_notes_column_error(w.h, Answer(w)).h],
                      query, team_id, tie)
    ELSE [w |-> w, exc |-> "TeamServiceUnavailable", ret |-> <<>>]

\* mutant: a missing team_id column ends the search without a retry
Mut_search_without_retry(w, query, team_id, tie, q) ==
    IF ~Answer(w).raised
    THEN SearchTitleAnswer(Call(w, "search_notes.title", "notes", "select",
                                Named(w), FALSE),
                           query, team_id, tie, q,
                           Filter(OrderBy(w.notes, tie),
                                  BodyMatches(w.notes, query) \cap Scoped(w, q)))
    ELSE [w |-> [w EXCEPT !.h = _handle_notes_column_error(w.h, Answer(w)).h],
          exc |-> "none", ret |-> <<>>]

\* the query on the body is answered
SearchBodyAnswer(w, query, team_id, tie, q) ==
    IF ~Answer(w).raised
    THEN SearchTitleAnswer(Call(w, "search_notes.title", "notes", "select",
                                Named(w), FALSE),
                           query, team_id, tie, q,
                           Filter(OrderBy(w.notes, tie),
                                  BodyMatches(w.notes, query) \cap Scoped(w, q)))
    ELSE IF _handle_notes_column_error(w.h, Answer(w)).handled
    THEN search_notes([w EXCEPT !.h = _handle_notes_column_error(w.h, Answer(w)).h],
                      query, team_id, tie)
    ELSE [w |-> w, exc |-> "TeamServiceUnavailable", ret |-> <<>>]

\* the query on the body
SearchBody(w, query, team_id, tie, q) ==
    SearchBodyAnswer(Call(w, "search_notes.body", "notes", "select",
                          IF q.team_id # Null /\ w.h.supports_note_team_id
                          THEN {"note_team_id"} ELSE {}, FALSE),
                     query, team_id, tie, q)

\* _project_ids_for_team once the select on projects is answered: a failure
\* leaves search_notes without project ids
SearchProjectsAnswer(w, query, team_id, tie, resolved_team_id) ==
    SearchBody(w, query, team_id, tie,
               [team_id |-> resolved_team_id, ids |-> NoteIds,
                project_ids |-> IF Answer(w).raised THEN {}
                                ELSE {p.id : p \in {x \in w.projects :
                                                      x.team_id = resolved_team_id}}])

\* search_notes once the team is resolved: a is what _resolve_team_id yields
SearchTeam(a, query, team_id, tie) ==
    IF a.exc # "none" THEN [w |-> a.w, exc |-> a.exc, ret |-> <<>>]
    ELSE SearchProjectsAnswer(Call(a.w, "_project_ids_for_team", "projects", "select",
                                   {}, FALSE),
                              query, team_id, tie,
                              IF a.ret # Null THEN a.ret ELSE team_id)

\* search_notes: no team is Null
search_notes(w, query, team_id, tie) ==
    IF w.h.mode = "sqlite" THEN _sqlite_search_notes(w, query, team_id, tie)
    ELSE IF _require_supabase_client(w).exc # "none"
    THEN [w |-> w, exc |-> _require_supabase_client(w).exc, ret |-> <<>>]
    ELSE IF Given(team_id)
    THEN SearchTeam(_resolve_team_id(w, team_id), query, team_id, tie)
    ELSE SearchBody(w, query, team_id, tie,
                    [team_id |-> Null, ids |-> NoteIds, project_ids |-> {}])

-----------------------------------------------------------------------------
(* Team lookups and semantic search *)

\* the end of get_team: the select on users_teams for the member count is
\* answered, with a count or not
GetTeamCount(w, team_id) == Return(w, team_id)

\* get_team once the team is looked up: a is what the lookup yields
GetTeamFound(a) ==
    IF a.exc # "none" \/ a.ret = Null THEN a
    ELSE GetTeamCount(Call(a.w, "get_team", "users_teams", "select", {}, FALSE), a.ret)

\* get_team: the id of the team returned
get_team(w, identifier) ==
    IF _require_supabase_client(w).exc # "none" THEN _require_supabase_client(w)
    ELSE GetTeamFound(_fetch_team_by_identifier(w, identifier))

\* the end of get_team_members: the select on users is answered
MemberUsersAnswer(w, user_ids) ==
    IF Answer(w).raised THEN [w |-> w, exc |-> "TeamServiceUnavailable", ret |-> {}]
    ELSE Return(w, user_ids)

RECURSIVE get_team_members(_, _)
\* one pass of the loop of get_team_members once the select is answered
MembersAnswer(w, team_id) ==
    IF Answer(w).raised /\ _handle_users_team_column_error(w.h, Answer(w)).handled
    THEN get_team_members([w EXCEPT !.h = _handle_users_team_column_error(
                                              w.h, Answer(w)).h],
                          team_id)
    ELSE IF Answer(w).raised
    THEN [w |-> w, exc |-> "TeamServiceUnavailable", ret |-> {}]
    ELSE IF \A m \in w.users_teams : m.team_id # team_id THEN Return(w, {})
    ELSE MemberUsersAnswer(Call(w, "get_team_members.users", "users", "select",
                                {}, FALSE),
                           {m.user_id : m \in {x \in w.users_teams : x.team_id = team_id}})

\* get_team_members: the ids of the users returned
get_team_members(w, team_id) ==
    IF _require_supabase_client(w).exc # "none"
    THEN [w |-> w, exc |-> _require_supabase_client(w).exc, ret |-> {}]
    ELSE MembersAnswer(Call(w, "get_team_members", "users_teams", "select",
                            MembershipColumns(w.h), FALSE),
                       team_id)

\* match_notes once its select on notes is answered: the notes it ranks
MatchNotesAnswer(w) ==
    IF Answer(w).raised THEN [w |-> w, exc |-> "Exception", ret |-> {}]
    ELSE Return(w, {w.notes[k].id : k \in 1..Len(w.notes)})

\* semantic_search once the edge function is answered
SearchEmbedAnswer(w) ==
    IF Answer(w).raised THEN [w |-> w, exc |-> "Exception", ret |-> {}]
    ELSE MatchNotesAnswer(Call(w, "match_notes", "notes", "select", {}, FALSE))

semantic_search(w) ==
    IF w.h.mode = "sqlite"
    THEN [w |-> w, exc |-> "TeamServiceUnavailable", ret |-> {}]
    ELSE IF _require_supabase_client(w).exc # "none"
    THEN [w |-> w, exc |-> _require_supabase_client(w).exc, ret |-> {}]
    ELSE SearchEmbedAnswer(Call(w, "semantic_search", "search-embed", "invoke",
                                {}, FALSE))

-----------------------------------------------------------------------------
(* The retry loops of the remote adapter, pass by pass. The loop that runs  *)
(* is the record loop: the operation (op), the place in it (phase), the     *)
(* handle (h), the attempt and the lookups of _unique_team_slug, the        *)
(* slug_value of create_team, and the backend, which answers every attempt  *)
(* alike.                                                                   *)

\* the operations with a retry loop, and the phase each starts in
LoopOps == {"create_team", "_unique_team_slug", "add_user_to_team", "add_note",
            "_fetch_membership", "list_user_teams", "get_team_members",
            "list_notes", "search_notes"}

\* the backends: one that answers, one whose slugs are all taken, one that
\* lacks every optional column, and those that answer every attempt with the
\* same error (the slug-mismatch error comes for every request on teams)
Backends == {"ok", "taken", "missing", "slug", "fk", "duplicate_id", "other"}

FirstPhase(op, h) ==
    CASE op = "create_team" -> IF h.supports_team_slug THEN "slug" ELSE "insert"
      [] op = "_unique_team_slug" -> "slug"
      [] op = "list_user_teams" -> "memberships"
      [] op = "search_notes" -> "body"
      [] OTHER -> "main"

\* the optional columns the request of the pass names
PassColumns(l) ==
    CASE l.phase = "slug" -> {"slug"}
      [] l.phase = "insert" ->
            (IF l.h.supports_team_description THEN {"description"} ELSE {})
            \cup (IF l.h.supports_team_slug /\ l.slug_value # Null
                  THEN {"slug"} ELSE {})
            \cup (IF l.h.supports_team_created_by THEN {"created_by"} ELSE {})
      [] l.phase = "teams" -> TeamColumns(l.h)
      [] l.op = "add_user_to_team" -> MemberPayloadColumns(l.h, "u1")
      [] l.op \in {"_fetch_membership", "list_user_teams", "get_team_members"} ->
            MembershipColumns(l.h)
      [] OTHER -> IF l.h.supports_note_team_id THEN {"note_team_id"} ELSE {}

\* what the backend answers the request of the pass with
LoopAnswer(l) ==
    CASE l.backend \in {"ok", "taken"} -> NoExc
      [] l.backend = "missing" ->
            IF PassColumns(l) = {} THEN NoExc
            ELSE MissingExc(FirstMissing(PassColumns(l)))
      [] l.backend = "duplicate_id" -> Exc({"duplicate", "id"}, {})
      [] l.backend = "slug" ->
            IF l.phase \in {"slug", "insert", "teams"} THEN InjectedExc("slug")
            ELSE NoExc
      [] OTHER -> InjectedExc(l.backend)

\* the loop is left
Left(l) == [l EXCEPT !.state = "returned"]

Raised(l, exc) == [l EXCEPT !.state = "raised", !.exc = exc]

\* the next pass, on the handle h
Again(l, h) == [l EXCEPT !.h = h, !.passes = IF @ < MaxPasses THEN @ + 1 ELSE @]

\* _unique_team_slug has ended with slug_value: create_team goes on to its insert
SlugEnded(l, h, slug_value) ==
    IF l.op = "_unique_team_slug" THEN Left([l EXCEPT !.h = h])
    ELSE [l EXCEPT !.h = h, !.phase = "insert", !.slug_value = slug_value]

\* one pass of the loop of _unique_team_slug, its select answered with e
UniqueSlugPass(l, e) ==
    IF e.raised
    THEN IF _handle_slug_capability_error(l.h, e).handled
         THEN SlugEnded([l EXCEPT !.lookups = @ + 1],
                        _handle_slug_capability_error(l.h, e).h, Null)
         ELSE Raised([l EXCEPT !.lookups = @ + 1], "TeamServiceUnavailable")
    ELSE IF l.backend # "taken"
    THEN SlugEnded([l EXCEPT !.lookups = @ + 1], l.h, Candidate("team", l.attempt))
    ELSE IF l.attempt + 1 > MaxSlugAttempts
    THEN Raised([l EXCEPT !.lookups = @ + 1, !.attempt = @ + 1], "RuntimeError")
    ELSE [l EXCEPT !.lookups = @ + 1, !.attempt = @ + 1]

\* the top of the next pass of create_team, on the handle h
CreateTeamAgain(l, h) ==
    Again([l EXCEPT !.phase = IF h.supports_team_slug THEN "slug" ELSE "insert",
                    !.attempt = 1],
          h)

\* one pass of the loop of create_team, its insert answered with e
CreateTeamPass(l, e) ==
    IF ~e.raised THEN Left(l)
    ELSE IF _handle_slug_capability_error(l.h, e).handled
    THEN CreateTeamAgain(l, _handle_slug_capability_error(l.h, e).h)
    ELSE IF _handle_team_column_error(l.h, e).handled
    THEN CreateTeamAgain(l, _handle_team_column_error(l.h, e).h)
    ELSE IF IsDuplicate(e) THEN Raised(l, "DuplicateResourceError")
    ELSE Raised(l, "TeamServiceUnavailable")

\* one pass of the loop of add_user_to_team, its insert answered with e
AddUserPass(l, e) ==
    IF ~e.raised THEN Left(l)
    ELSE IF Has(e, "foreign key") /\ Has(e, "users") THEN Raised(l, "AttributeError")
    ELSE IF _handle_users_team_column_error(l.h, e).handled
    THEN Again(l, _handle_users_team_column_error(l.h, e).h)
    ELSE IF IsDuplicate(e) THEN Raised(l, "DuplicateResourceError")
    ELSE Raised(l, "TeamServiceUnavailable")

\* one pass of the loop of add_note, its insert answered with e
AddNotePass(l, e) ==
    IF ~e.raised THEN Left(l)
    ELSE IF Has(e, "queue") THEN Raised(l, "Exception")
    ELSE IF Has(e, "duplicate") /\ Has(e, "id") THEN Again(l, l.h)
    ELSE IF _handle_notes_column_error(l.h, e).handled
    THEN Again(l, _handle_notes_column_error(l.h, e).h)
    ELSE Raised(l, "TeamServiceUnavailable")

\* one pass of a loop that selects the memberships, its select answered with e
MembershipsPass(l, e) ==
    IF ~e.raised
    THEN IF l.op = "list_user_teams" THEN [l EXCEPT !.phase = "teams"]
         ELSE Left(l)
    ELSE IF _handle_users_team_column_error(l.h, e).handled
    THEN Again(l, _handle_users_team_column_error(l.h, e).h)
    ELSE Raised(l, "TeamServiceUnavailable")

\* one pass of the second loop of list_user_teams, its select answered with e
TeamsPass(l, e) ==
    IF ~e.raised THEN Left(l)
    ELSE IF _handle_slug_capability_error(l.h, e).handled
    THEN Again(l, _handle_slug_capability_error(l.h, e).h)
    ELSE IF _handle_team_column_error(l.h, e).handled
    THEN Again(l, _handle_team_column_error(l.h, e).h)
    ELSE Raised(l, "TeamServiceUnavailable")

\* one call of list_notes or search_notes, the query on notes answered with e:
\* a handled error calls the operation again
NotesPass(l, e) ==
    IF ~e.raised
    THEN IF l.phase = "body" THEN [l EXCEPT !.phase = "title"] ELSE Left(l)
    ELSE IF _handle_notes_column_error(l.h, e).handled
    THEN Again([l EXCEPT !.phase = FirstPhase(l.op, l.h)],
               _handle_notes_column_error(l.h, e).h)
    ELSE Raised(l, "TeamServiceUnavailable")

\* one pass of the loop l
PassOf(l, e) ==
    CASE l.phase = "slug" -> UniqueSlugPass(l, e)
      [] l.phase = "insert" -> CreateTeamPass(l, e)
      [] l.phase = "teams" -> TeamsPass(l, e)
      [] l.phase = "memberships" -> MembershipsPass(l, e)
      [] l.op = "add_user_to_team" -> AddUserPass(l, e)
      [] l.op = "add_note" -> AddNotePass(l, e)
      [] l.op \in {"_fetch_membership", "get_team_members"} -> MembershipsPass(l, e)
      [] OTHER -> NotesPass(l, e)

-----------------------------------------------------------------------------
(* The similarity matcher (core/match_notes.py). Embeddings are vectors of   *)
(* integers. A similarity, and a threshold, is held as a fraction num/den,  *)
(* the signed square of the cosine, which orders as the cosine does; den = 0 *)
(* is the nan that numpy gives for a vector of norm 0.                      *)

\* np.dot
dot(a, b) == a[1] * b[1] + a[2] * b[2]

\* dot_product / (query_norm * note_norm)
cosine_similarity(query_embedding, note_embedding) ==
    [num |-> IF dot(query_embedding, note_embedding) < 0
             THEN 0 - dot(query_embedding, note_embedding)
                      * dot(query_embedding, note_embedding)
             ELSE dot(query_embedding, note_embedding)
                      * dot(query_embedding, note_embedding),
     den |-> dot(query_embedding, query_embedding)
                 * dot(note_embedding, note_embedding)]

\* x > y of two floats: false when one of them is nan
Greater(x, y) == x.den > 0 /\ y.den > 0 /\ x.num * y.den > y.num * x.den

RECURSIVE Similar(_, _, _)
\* the loop over notes.data: the results, in the order of the rows
Similar(data, query_embedding, threshold) ==
    IF data = <<>> THEN <<>>
    ELSE IF Greater(cosine_similarity(query_embedding, Head(data).body_embedding),
                    threshold)
    THEN <<[id |-> Head(data).id,
            similarity |-> cosine_similarity(query_embedding,
                                             Head(data).body_embedding)]>>
         \o Similar(Tail(data), query_embedding, threshold)
    ELSE Similar(Tail(data), query_embedding, threshold)

RECURSIVE Place(_, _)
\* r put into the sorted results s, behind those that are not smaller
Place(s, r) ==
    IF s = <<>> THEN <<r>>
    ELSE IF Greater(r.similarity, Head(s).similarity) THEN <<r>> \o s
    ELSE <<Head(s)>> \o Place(Tail(s), r)

RECURSIVE SortReverse(_, _)
\* results.sort(key=similarity, reverse=True): the sort is stable
SortReverse(results, sorted) ==
    IF results = <<>> THEN sorted
    ELSE SortReverse(Tail(results), Place(sorted, Head(results)))

\* results[:limit]: a negative limit counts from the end
Slice(results, limit) ==
    IF limit >= 0
    THEN SubSeq(results, 1, IF limit < Len(results) THEN limit ELSE Len(results))
    ELSE SubSeq(results, 1, Len(results) + limit)

\* match_notes once its select is answered with data
match_notes(data, query_embedding, limit, threshold) ==
    IF data = <<>> THEN <<>>
    ELSE Slice(SortReverse(Similar(data, query_embedding, threshold), <<>>), limit)

-----------------------------------------------------------------------------
(* The configuration (core/config.py). A manager is the record of its       *)
(* _config and of the file it saves to: the sequence of the one document    *)
(* in it, empty while there is no file. Of the keys of the configuration    *)
(* those of the teams are kept, with auth_token for the others. A list is   *)
(* a sequence, a dict a record.                                             *)

RECENT_TEAMS_LIMIT == 5

CONFIG_VERSION == 2

DEFAULT_CONFIG ==
    [config_version |-> CONFIG_VERSION, auth_token |-> Null,
     team_id |-> Null, current_team_id |-> Null,
     recent_teams |-> <<>>, team_history |-> <<>>]

\* s[:n]
Prefix(s, n) == SubSeq(s, 1, IF n < Len(s) THEN n ELSE Len(s))

\* mutant: the entries of the team are left in the list
Mut_recent_not_filtered(s, id) == s

\* the items of s, in their order, that are not of the team id
Without(s, id) == SelectSeq(s, LAMBDA item : item.id # id)

\* the name of the first item of recent_teams that has the id, None for none
existing_name(recent, team_id) ==
    IF \E k \in 1..Len(recent) : recent[k].id = team_id
    THEN recent[CHOOSE k \in 1..Len(recent) :
                   /\ recent[k].id = team_id
                   /\ \A j \in 1..(k - 1) : recent[j].id # team_id].name
    ELSE Null

\* the entry of the team that is switched to at time t
Entry(cfg, team_id, team_name, t) ==
    [id |-> team_id,
     name |-> IF team_name # Null THEN team_name
              ELSE existing_name(cfg.recent_teams, team_id),
     switched_at |-> t]

\* mutant: the legacy key is not written
Mut_legacy_key_left(cfg, team_id, team_name, t) ==
    IF team_id \notin {Null, ""}
    THEN [cfg EXCEPT
             !.current_team_id = team_id,
             !.recent_teams =
                Prefix(<<Entry(cfg, team_id, team_name, t)>> \o Without(@, team_id),
                       RECENT_TEAMS_LIMIT),
             !.team_history =
                Prefix(<<team_id>> \o SelectSeq(@, LAMBDA id : id # team_id),
                       RECENT_TEAMS_LIMIT)]
    ELSE [cfg EXCEPT !.current_team_id = team_id]

_set_current_team_internal(cfg, team_id, team_name, t) ==
    IF team_id \notin {Null, ""}
    THEN [cfg EXCEPT
             !.current_team_id = team_id,
             !.team_id = team_id,
             !.recent_teams =
                Prefix(<<Entry(cfg, team_id, team_name, t)>> \o Without(@, team_id),
                       RECENT_TEAMS_LIMIT),
             !.team_history =
                Prefix(<<team_id>> \o SelectSeq(@, LAMBDA id : id # team_id),
                       RECENT_TEAMS_LIMIT)]
    ELSE [cfg EXCEPT !.current_team_id = team_id, !.team_id = team_id]

\* ConfigManager.save
save(m) == [m EXCEPT !.file = <<m._config>>]

\* ConfigManager.load, on no file or on a file of this version: a key that is
\* null in the file takes its default
load(m) ==
    IF m.file = <<>> THEN [m EXCEPT !._config = DEFAULT_CONFIG]
    ELSE [m EXCEPT !._config =
             [config_version |-> CONFIG_VERSION,
              auth_token |-> IF m.file[1].auth_token # Null
                             THEN m.file[1].auth_token
                             ELSE DEFAULT_CONFIG.auth_token,
              team_id |-> IF m.file[1].team_id # Null
                          THEN m.file[1].team_id ELSE DEFAULT_CONFIG.team_id,
              current_team_id |-> IF m.file[1].current_team_id # Null
                                  THEN m.file[1].current_team_id
                                  ELSE DEFAULT_CONFIG.current_team_id,
              recent_teams |-> m.file[1].recent_teams,
              team_history |-> m.file[1].team_history]]

set_current_team(m, team_id, team_name, persist, t) ==
    IF persist
    THEN save([m EXCEPT !._config = _set_current_team_internal(@, team_id, team_name, t)])
    ELSE [m EXCEPT !._config = _set_current_team_internal(@, team_id, team_name, t)]

\* ConfigManager.set; set is a word of the language
set_(m, key, value, t) ==
    IF key \in {"team_id", "current_team_id"}
    THEN set_current_team(m, value, Null, TRUE, t)
    ELSE save([m EXCEPT !._config[key] = value])

\* updates.pop(key, None)
pop(updates, key) == IF key \in DOMAIN updates THEN updates[key] ELSE Null

\* resolved_team_id of update
resolved_team_id(updates) ==
    IF pop(updates, "current_team_id") # Null THEN pop(updates, "current_team_id")
    ELSE pop(updates, "team_id")

\* self._config.update(updates) of what is left of updates
Merged(cfg, updates) ==
    IF "auth_token" \in DOMAIN updates
    THEN [cfg EXCEPT !.auth_token = updates["auth_token"]]
    ELSE cfg

\* ConfigManager.update
update(m, updates, t) ==
    IF resolved_team_id(updates) # Null
    THEN save([m EXCEPT !._config =
                  [_set_current_team_internal(Merged(@, updates),
                                              resolved_team_id(updates),
                                              pop(updates, "current_team_name"), t)
                      EXCEPT !.team_id = resolved_team_id(updates),
                             !.config_version = CONFIG_VERSION]])
    ELSE save([m EXCEPT !._config =
                  [Merged(@, updates) EXCEPT !.config_version = CONFIG_VERSION]])

\* ConfigManager.get_current_team
get_current_team(m) ==
    IF m._config.current_team_id \notin {Null, ""} THEN m._config.current_team_id
    ELSE m._config.team_id

-----------------------------------------------------------------------------
(* The identity resolver (core/auth.py). The AuthManager of a client is the *)
(* record a of its world: the id cached in the config, the session it holds *)
(* (_session), the session the auth client would give (live) and USER_ID of *)
(* the environment. A session is the id of its user, "nouser" when it has   *)
(* none.                                                                    *)

\* the end of ensure_user_exists: the insert or the update is answered, a
\* failure is logged and passed over, and the id is put in the config
EnsureUserWritten(w, user_id) ==
    Return([w EXCEPT !.a.current_user_id = user_id,
                     !.users = IF Answer(w).raised THEN @ ELSE @ \cup {user_id}],
           user_id)

\* the select on users is answered
EnsureUserSelect(w, user_id) ==
    IF Answer(w).raised THEN Return([w EXCEPT !.a.current_user_id = user_id], user_id)
    ELSE IF user_id \in w.users
    THEN EnsureUserWritten(Call(w, "ensure_user_exists.update", "users", "update",
                                {}, FALSE),
                           user_id)
    ELSE EnsureUserWritten(Call(w, "ensure_user_exists.insert", "users", "insert",
                                {}, FALSE),
                           user_id)

ensure_user_exists(w, user_id) ==
    EnsureUserSelect(Call(w, "ensure_user_exists", "users", "select", {}, FALSE),
                     user_id)

\* the end of _get_or_load_session: get_session, and set_session with the
\* stored tokens, are answered
SessionLoaded(w) ==
    IF Answer(w).raised \/ w.a.live = Null THEN Return(w, Null)
    ELSE Return([w EXCEPT !.a._session = w.a.live], w.a.live)

\* _get_or_load_session: the session, Null for none
_get_or_load_session(w) ==
    IF w.a._session # Null
    THEN Return(Logged(w, "_get_or_load_session", "auth", "held", {}, NoExc),
                w.a._session)
    ELSE SessionLoaded(Call(w, "_get_or_load_session", "auth", "get_session",
                            {}, FALSE))

\* mutant: the id of the session is returned without being cached
Mut_session_user_uncached(s) ==
    IF s.ret \in {Null, "nouser"} THEN Return(s.w, Null) ELSE Return(s.w, s.ret)

\* get_current_user_id once the session s is there
SessionUser(s) ==
    IF s.ret \in {Null, "nouser"} THEN Return(s.w, Null)
    ELSE ensure_user_exists(s.w, s.ret)

get_current_user_id(w) ==
    IF w.a.current_user_id # Null THEN Return(w, w.a.current_user_id)
    ELSE SessionUser(_get_or_load_session(w))

\* the end of Database._require_user_id: g is what get_current_user_id yields
RequireUser(g) ==
    IF g.ret # Null THEN g
    ELSE IF g.w.h.user_id # Null THEN Return(g.w, g.w.h.user_id)
    ELSE IF g.w.h.mode = "sqlite" THEN Return(g.w, "offline-user")
    ELSE Raise(g.w, "AuthorizationError")

\* create_team by the user _require_user_id yields: u is what it yields
CreateTeamBy(u, name) ==
    IF u.exc # "none" THEN u
    ELSE create_team([u.w EXCEPT !.h.user_id = u.ret], name, Null)

\* add_note, without project and team, by the user _require_user_id yields
AddNoteBy(u, title, body) ==
    IF u.exc # "none" THEN u
    ELSE add_note([u.w EXCEPT !.h.user_id = u.ret], title, body, <<>>, Null, Null)

-----------------------------------------------------------------------------
(* The state machine: the backend's tables and clock, one Database handle  *)
(* per client process, and the last facade call with what it returned.     *)

UserOf(c) == IF c = "c1" THEN "u1" ELSE "u2"

NoCall == [op |-> "none", client |-> Null, team |-> Null, user |-> Null,
           code |-> Null, exc |-> "none", ret |-> Null, rows |-> {},
           calls |-> <<>>, caps |-> {}]

\* the AuthManager of a client without any identity, its handle constructed
NoIdentity ==
    [current_user_id |-> Null, _session |-> Null, live |-> Null, USER_ID |-> Null,
     opened |-> TRUE]

\* the identity of every client is settled: its user id is cached in its
\* config and has its row in users
SignedIn ==
    /\ auth = [c \in Clients |-> [current_user_id |-> UserOf(c), _session |-> Null,
                                  live |-> Null, USER_ID |-> Null, opened |-> TRUE]]
    /\ users = Users

\* no retry loop is running
NoLoop == [state |-> "idle"]

\* nothing beside the facade is in use
Resting ==
    /\ loop = NoLoop
    /\ config = Null
    /\ rt = Null
    /\ messenger = Null

\* no note is stored, remotely or in a file of the local store
NoNotes ==
    /\ notes = <<>>
    /\ tags = {}
    /\ notes_tags = {}
    /\ sqlite = [p \in Paths |-> <<>>]
    /\ projects = {}

Init ==
    /\ schema \in Schemas
    /\ teams = {}
    /\ users_teams = {}
    /\ team_invitations = {}
    /\ now = 0
    /\ env = [c \in Clients |-> IF c = "c2" THEN LocalEnv ELSE RemoteEnv]
    /\ db = [c \in Clients |-> Database(UserOf(c), env[c])]
    /\ last = NoCall
    /\ NoNotes
    /\ Resting
    /\ SignedIn

TeamRows == {t.id : t \in teams}

\* the backend's answers to one facade call of client c: a handle in local mode
\* never reaches the backend
ScriptsFor(c, F) ==
    IF db[c].mode = "sqlite" THEN {[i \in 1..MaxScript |-> "ok"]} ELSE Scripts(F)

\* the facade call op of client c ended as r: the tables, the handle and the
\* record of the call
Ended(c, op, team, user, code, r, ret, rows) ==
    /\ teams' = r.w.teams
    /\ users_teams' = r.w.users_teams
    /\ team_invitations' = r.w.team_invitations
    /\ notes' = r.w.notes
    /\ tags' = r.w.tags
    /\ notes_tags' = r.w.notes_tags
    /\ sqlite' = r.w.sqlite
    /\ projects' = r.w.projects
    /\ db' = [db EXCEPT ![c] = r.w.h]
    /\ last' = [op |-> op, client |-> c, team |-> team, user |-> user,
                code |-> code, exc |-> r.exc, ret |-> ret, rows |-> rows,
                calls |-> r.w.calls, caps |-> Supported(db[c])]
    /\ UNCHANGED <<schema, now, env, beside>>

\* the facade call op of a client whose identity is settled ended as r
Finish(c, op, team, user, code, r, ret, rows) ==
    /\ Ended(c, op, team, user, code, r, ret, rows)
    /\ UNCHANGED <<auth, users>>

\* create_team while fewer than n teams are stored
CreateTeamUpTo(c, F, n) ==
    \E name \in Names, description \in Descriptions \cup {Null}, f \in ScriptsFor(c, F) :
       /\ Cardinality(teams) < n
       /\ TeamRows # TeamIds
       /\ \E r \in {create_team(World(db[c], f), name, description)} :
             Finish(c, "create_team", r.ret, Null, Null, r, r.ret, {})

CreateTeam(c, F) == CreateTeamUpTo(c, F, MaxTeams)

UpdateTeam(c, F) ==
    \E team_id \in TeamRows, name \in Names \cup {Null},
       description \in Descriptions \cup {Null}, slug \in {Null, "team-a"},
       f \in ScriptsFor(c, F) :
       \E r \in {update_team(World(db[c], f), team_id, name, description, slug)} :
          Finish(c, "update_team", team_id, Null, Null, r, r.ret, {})

DeleteTeam(c, F) ==
    \E team_id \in TeamRows, f \in ScriptsFor(c, F) :
       \E r \in {delete_team(World(db[c], f), team_id)} :
          Finish(c, "delete_team", team_id, Null, Null, r, r.ret, {})

AddUserToTeam(c, F) ==
    \E user_id \in Users, team_id \in TeamRows, role \in {"member"},
       f \in ScriptsFor(c, F) :
       \E r \in {add_user_to_team(World(db[c], f), user_id, team_id, role, UserOf(c))} :
          Finish(c, "add_user_to_team", team_id, user_id, Null, r, r.ret, {})

RemoveUserFromTeam(c, F) ==
    \E user_id \in Users, team_id \in TeamRows, f \in ScriptsFor(c, F) :
       \E r \in {remove_user_from_team(World(db[c], f), user_id, team_id)} :
          Finish(c, "remove_user_from_team", team_id, user_id, Null, r, r.ret, {})

ListUserTeams(c, F) ==
    \E f \in ScriptsFor(c, F) :
       \E r \in {list_user_teams(World(db[c], f), UserOf(c))} :
          Finish(c, "list_user_teams", Null, UserOf(c), Null, r, Null, r.ret)

CreateTeamInvitation(c, F, codes) ==
    \E email \in Emails, team_id \in TeamRows, role \in {"member"},
       code \in codes, expires_at \in {now - 1, now + 1}, f \in ScriptsFor(c, F) :
       \E r \in {create_team_invitation(World(db[c], f), email, team_id, role,
                                       code, expires_at)} :
          Finish(c, "create_team_invitation", team_id, email, code, r, r.ret, {})

ListTeamInvitations(c, F) ==
    \E team_id \in TeamRows, f \in ScriptsFor(c, F) :
       \E r \in {list_team_invitations(World(db[c], f), team_id)} :
          Finish(c, "list_team_invitations", team_id, Null, Null, r, Null, r.ret)

RevokeTeamInvitation(c, F) ==
    \E code \in Codes, f \in ScriptsFor(c, F) :
       \E r \in {revoke_team_invitation(World(db[c], f), code)} :
          Finish(c, "revoke_team_invitation", Null, Null, code, r, r.ret, {})

AcceptTeamInvitation(c, F) ==
    \E code \in Codes, f \in ScriptsFor(c, F) :
       \E r \in {accept_team_invitation(World(db[c], f), code, Null)} :
          Finish(c, "accept_team_invitation", r.ret, UserOf(c), code, r, r.ret, {})

\* time passes
\* the notes stored anywhere
NotesStored ==
    Len(notes) + Len(sqlite["explicit.db"]) + Len(sqlite["override.db"])
    + Len(sqlite["config/notes.db"])

AddNote(c, F) ==
    \E tag_input \in TagInputs, f \in ScriptsFor(c, F) :
       /\ NotesStored < MaxNotes
       /\ \E r \in {add_note(World(db[c], f), <<"a">>, <<"b">>, tag_input, Null, Null)} :
             Finish(c, "add_note", Null, Null, Null, r, r.ret, tag_input)

\* the teams of the configuration, one more than recent_teams keeps, and the
\* values a team key is set to
ConfigTeams == {"a", "b", "c", "d", "e", "f"}

TeamValues == {Null, ""} \cup ConfigTeams

\* the teams that are switched to at any time, and those that are switched
\* to one after the other: a team of these in its turn, when it is not in
\* team_history and the one before it is
Freely == {"a", "b"}

Later == <<"c", "d", "e", "f">>

InTurn(cfg, value) ==
    \/ value \in {Null, ""} \cup Freely
    \/ \E k \in 1..Len(Later) :
          /\ Later[k] = value
          /\ \A j \in 1..Len(cfg.team_history) : cfg.team_history[j] # value
          /\ k > 1 => \E j \in 1..Len(cfg.team_history) :
                         cfg.team_history[j] = Later[k - 1]

\* the dicts update is called with: some of the keys of the teams, with a
\* name or a token beside the one team
Updates ==
    UNION {[D -> {Null, "a", "b"}] : D \in SUBSET {"current_team_id", "team_id"}}

UpdatesGiven ==
    Updates \cup {[team_id |-> "a", current_team_name |-> "N"],
                  [team_id |-> "a", auth_token |-> "tok"],
                  [auth_token |-> "tok"]}

\* a call on the manager is put on record with its arguments (code) and with
\* what get_current_team returns after it (ret)
Recorded(op, args) ==
    /\ last' = [NoCall EXCEPT !.op = op, !.code = args,
                              !.ret = get_current_team(config')]
    /\ UNCHANGED <<schema, teams, users_teams, team_invitations, now, db, env,
                   notes, tags, notes_tags, sqlite, projects, auth, users,
                   loop, rt, messenger>>

\* ConfigManager.set
Set ==
    \/ \E key \in {"team_id", "current_team_id"}, value \in TeamValues :
          /\ InTurn(config._config, value)
          /\ config' = set_(config, key, value, now)
          /\ Recorded("set", [key |-> key, value |-> value])
    \/ /\ config' = set_(config, "auth_token", "tok", now)
       /\ Recorded("set", [key |-> "auth_token", value |-> "tok"])

\* ConfigManager.update
Update ==
    \E updates \in UpdatesGiven :
       /\ config' = update(config, updates, now)
       /\ Recorded("update", updates)

\* ConfigManager.set_current_team, to clear the team or to switch to team a
SetCurrentTeam ==
    \E team_id \in {Null, "a"}, team_name \in {Null, "N"}, persist \in BOOLEAN :
       /\ team_name # Null => team_id = "a"
       /\ config' = set_current_team(config, team_id, team_name, persist, now)
       /\ Recorded("set_current_team",
                   [team_id |-> team_id, team_name |-> team_name,
                    persist |-> persist])

\* ConfigManager(): the next command constructs its manager from the file
Load ==
    /\ config' = load(config)
    /\ Recorded("load", Null)

\* time passes between two calls on the manager
ConfigTick ==
    /\ now < MaxConfigTime
    /\ now' = now + 1
    /\ UNCHANGED <<schema, teams, users_teams, team_invitations, db, last, env,
                   notes, tags, notes_tags, sqlite, projects, auth, users, beside>>

\* the realtime client (realtime/client.py), task by task. A step of a task
\* runs from one await that suspends to the next; the handler of listen is a
\* plain function. rt is the client with its socket: _ws is "open" or None, a
\* task is None, "running", "cancelled" (cancel() is called on it), at an await
\* of the close it runs, or "done"; listen and closing are the places of the
\* consumer in listen and of the user in close; wire holds the frames the
\* server has sent and the client has not read, arrived and delivered the
\* frames put on the queue and handed to the handler.
FreshClient ==
    [_ws |-> Null, _closed |-> FALSE, _queue |-> <<>>,
     _receiver_task |-> Null, _heartbeat_task |-> Null,
     listen |-> "idle", closing |-> "idle",
     wire |-> <<>>, server |-> "none", replied |-> FALSE, sent |-> 0,
     arrived |-> <<>>, delivered |-> <<>>]

\* the frames of the server: a change of a row, and the reply to the join
Change(n) == [event |-> "postgres_changes", ref |-> Null, status |-> Null, n |-> n]

Reply(status) == [event |-> "phx_reply", ref |-> "1", status |-> status, n |-> 0]

\* task.cancel()
Cancel(task) == IF task = "running" THEN "cancelled" ELSE task

\* the other variables stay as they are
RealtimeOnly ==
    UNCHANGED <<schema, teams, users_teams, team_invitations, now, db, last, env,
                notes, tags, notes_tags, sqlite, projects, auth, users,
                loop, config, messenger>>

\* the loop of listen, from its test to the queue.get() that suspends or to
\* its end: closed ends it, else the queue is handed over message by message
ListenLoop(c) ==
    IF c._closed THEN [c EXCEPT !.listen = "returned"]
    ELSE [c EXCEPT !.listen = "waiting", !._queue = <<>>,
                   !.delivered = @ \o c._queue]

\* listen is called: it connects when there is no socket, sends the join and
\* waits for a frame
Listen ==
    /\ rt.listen = "idle"
    /\ rt' = IF rt._ws = Null
             THEN [rt EXCEPT !._ws = "open", !.server = "up", !.listen = "joining"]
             ELSE ListenLoop(rt)
    /\ RealtimeOnly

\* _join_channel, one frame of its loop: the reply with the ref of the join
\* ends it, by an error when its status is not ok, and connect then starts the
\* two tasks; any other frame is put on the queue. No socket, a connection the
\* server has closed, and no frame for 15 seconds end connect by an error
_join_channel ==
    /\ rt.listen = "joining"
    /\ RealtimeOnly
    /\ \/ /\ rt._ws = Null
          /\ rt' = [rt EXCEPT !.listen = "raised"]
       \/ /\ rt._ws # Null
          /\ rt.wire = <<>>
          /\ rt' = [rt EXCEPT !.listen = "raised"]
       \/ /\ rt._ws # Null
          /\ rt.wire # <<>>
          /\ rt' = IF Head(rt.wire).event = "phx_reply" /\ Head(rt.wire).ref = "1"
                   THEN IF Head(rt.wire).status # "ok"
                        THEN [rt EXCEPT !.wire = Tail(@), !.listen = "raised"]
                        ELSE ListenLoop([rt EXCEPT !.wire = Tail(@),
                                                   !._receiver_task = "running",
                                                   !._heartbeat_task = "running"])
                   ELSE [rt EXCEPT !.wire = Tail(@),
                                   !._queue = Append(@, Head(rt.wire)),
                                   !.arrived = Append(@, Head(rt.wire))]

\* listen is resumed at queue.get() by a message: the message is handed over,
\* and the loop runs on
ListenResumed ==
    /\ rt.listen = "waiting"
    /\ rt._queue # <<>>
    /\ rt' = ListenLoop([rt EXCEPT !._queue = Tail(@),
                                   !.delivered = Append(@, Head(rt._queue))])
    /\ RealtimeOnly

\* close, from its call to its first await: nothing when closed is set; else
\* closed is set, the heartbeat task is cancelled and awaited, or without tasks
\* the socket is closed
CloseCalled(c, place) ==
    IF c._closed THEN [c EXCEPT ![place] = "done"]
    ELSE IF c._heartbeat_task # Null
    THEN [c EXCEPT !._closed = TRUE, !._heartbeat_task = Cancel(@),
                   ![place] = "await_heartbeat"]
    ELSE IF c._receiver_task # Null
    THEN [c EXCEPT !._closed = TRUE, !._receiver_task = Cancel(@),
                   ![place] = "await_receiver"]
    ELSE IF c._ws # Null
    THEN [c EXCEPT !._closed = TRUE, ![place] = "ws_close"]
    ELSE [c EXCEPT !._closed = TRUE, ![place] = "done"]

\* close, resumed at an await: after the heartbeat task the receiver task is
\* cancelled and awaited, after it the socket is closed, and then _ws is None.
\* The receiver task that awaits itself is resumed by the CancelledError of its
\* own cancel(), which close suppresses
CloseResumed(c, place) ==
    IF c[place] = "await_heartbeat"
    THEN IF place = "_receiver_task" THEN [c EXCEPT ![place] = "ws_close"]
         ELSE [c EXCEPT !._receiver_task = Cancel(@), ![place] = "await_receiver"]
    ELSE IF c[place] = "await_receiver"
    THEN IF c._ws # Null THEN [c EXCEPT ![place] = "ws_close"]
         ELSE [c EXCEPT ![place] = "done"]
    ELSE [c EXCEPT !._ws = Null, ![place] = "done"]

\* the await of close at the place can be resumed
CanResume(c, place) ==
    \/ c[place] = "await_heartbeat" /\ c._heartbeat_task = "done"
    \/ c[place] = "await_receiver" /\ c._receiver_task = "done"
    \/ c[place] = "ws_close"

\* the user calls close, and the call runs on from an await
ClientClose ==
    /\ RealtimeOnly
    /\ \/ /\ rt.closing \in {"idle", "done"}
          /\ rt' = CloseCalled(rt, "closing")
       \/ /\ CanResume(rt, "closing")
          /\ rt' = CloseResumed(rt, "closing")

\* _receiver_loop: a frame of the socket is put on the queue; when the
\* connection is closed, or the task cancelled, the loop ends and close is
\* called, and the task ends with it
_receiver_loop ==
    /\ RealtimeOnly
    /\ \/ /\ rt._receiver_task = "running"
          /\ rt._ws # Null
          /\ rt.wire # <<>>
          /\ rt' = [rt EXCEPT !.wire = Tail(@),
                              !._queue = Append(@, Head(rt.wire)),
                              !.arrived = Append(@, Head(rt.wire))]
       \/ /\ \/ rt._receiver_task = "cancelled"
             \/ /\ rt._receiver_task = "running"
                /\ rt._ws = Null \/ (rt.wire = <<>> /\ rt.server = "closed")
          /\ rt' = CloseCalled(rt, "_receiver_task")
       \/ /\ CanResume(rt, "_receiver_task")
          /\ rt' = CloseResumed(rt, "_receiver_task")

\* _heartbeat_loop: the task ends when it is cancelled, when closed is set and
\* when its send fails; a heartbeat that is sent changes nothing here
_heartbeat_loop ==
    /\ \/ rt._heartbeat_task = "cancelled"
       \/ /\ rt._heartbeat_task = "running"
          /\ rt._closed \/ rt._ws = Null \/ rt.server = "closed"
    /\ rt' = [rt EXCEPT !._heartbeat_task = "done"]
    /\ RealtimeOnly

\* the server sends the next change on the connection
ServerSend ==
    /\ rt.server = "up"
    /\ rt.sent < MaxFrames
    /\ rt' = [rt EXCEPT !.sent = @ + 1, !.wire = Append(@, Change(rt.sent + 1))]
    /\ RealtimeOnly

\* the server replies to the join, once
ServerReply ==
    /\ rt.server = "up"
    /\ ~rt.replied
    /\ \E status \in {"ok", "error"} :
          rt' = [rt EXCEPT !.replied = TRUE, !.wire = Append(@, Reply(status))]
    /\ RealtimeOnly

\* the server closes the connection
ServerClose ==
    /\ rt.server = "up"
    /\ rt' = [rt EXCEPT !.server = "closed"]
    /\ RealtimeOnly

\* the messenger (realtime/messaging.py). messenger is the record of the two
\* tables it writes to, each the set of its rows, and of connected: the
\* realtime client has its socket. A payload is a row whose id may be missing
\* (0); the backend gives a row without id the next id of the table. The
\* result of a call is the record of the messenger after it, of the exception
\* (exc), of what is returned (ret), and of the writes and broadcasts of the
\* call in their order (events).
NoRow == [id |-> 0, body |-> ""]

NextRowId(rows) ==
    IF rows = {} THEN 1
    ELSE 1 + (CHOOSE n \in {r.id : r \in rows} : \A r \in rows : r.id <= n)

\* the row the backend stores for the payload
RowOf(rows, payload) ==
    IF payload.id = 0 THEN [payload EXCEPT !.id = NextRowId(rows)] ELSE payload

\* query.upsert(payload).execute() and query.insert(payload).execute(): the
\* rows of the table after the write, and the response, its data the list of
\* the row written. An insert of an id the table holds is refused
Execute(rows, payload, upsert) ==
    IF \E r \in rows : r.id = payload.id
    THEN IF upsert
         THEN [exc |-> "none", data |-> <<payload>>,
               rows |-> {r \in rows : r.id # payload.id} \cup {payload}]
         ELSE [exc |-> "APIError", data |-> <<>>, rows |-> rows]
    ELSE [exc |-> "none", data |-> <<RowOf(rows, payload)>>,
          rows |-> rows \cup {RowOf(rows, payload)}]

\* result[0] if isinstance(result, list) and result else result or payload
FirstOr(result, payload) == IF result # <<>> THEN result[1] ELSE payload

\* the call has ended with the response of the backend
Persisted(m, table, payload, response) ==
    IF response.exc # "none"
    THEN [m |-> m, exc |-> response.exc, ret |-> NoRow,
          events |-> <<[kind |-> "refused", table |-> table, data |-> payload]>>]
    ELSE [m |-> [m EXCEPT !.tables[table] = response.rows], exc |-> "none",
          ret |-> FirstOr(response.data, payload),
          events |-> <<[kind |-> "written", table |-> table,
                        data |-> response.data[1]]>>]

\* mutant: what is returned is the payload, not the row of the response
Mut_persist_payload(m, table, payload, upsert, fault) ==
    IF fault
    THEN [m |-> m, exc |-> "ConnectError", ret |-> NoRow,
          events |-> <<[kind |-> "refused", table |-> table, data |-> payload]>>]
    ELSE [Persisted(m, table, payload, Execute(m.tables[table], payload, upsert))
             EXCEPT !.ret = payload]

\* RealtimeMessenger._persist; with the fault the request does not reach the
\* backend
_persist(m, table, payload, upsert, fault) ==
    IF fault
    THEN [m |-> m, exc |-> "ConnectError", ret |-> NoRow,
          events |-> <<[kind |-> "refused", table |-> table, data |-> payload]>>]
    ELSE Persisted(m, table, payload, Execute(m.tables[table], payload, upsert))

\* RealtimeMessenger._broadcast after the write p: send_broadcast, that needs
\* the socket of the realtime client
_broadcast(p, event_type) ==
    IF p.m.connected
    THEN [p EXCEPT !.events = Append(@, [kind |-> event_type, table |-> "",
                                         data |-> p.ret])]
    ELSE [p EXCEPT !.exc = "AssertionError", !.ret = NoRow]

\* RealtimeMessenger.publish_note_update
publish_note_update(m, note_payload, fault) ==
    IF _persist(m, "notes", note_payload, TRUE, fault).exc # "none"
    THEN _persist(m, "notes", note_payload, TRUE, fault)
    ELSE _broadcast(_persist(m, "notes", note_payload, TRUE, fault), "note_update")

\* RealtimeMessenger.send_direct_message
send_direct_message(m, message_payload, upsert, fault) ==
    IF _persist(m, "messages", message_payload, upsert, fault).exc # "none"
    THEN _persist(m, "messages", message_payload, upsert, fault)
    ELSE _broadcast(_persist(m, "messages", message_payload, upsert, fault),
                    "direct_message")

\* the payloads of the calls: with the id of a row or without, two bodies
Payloads == [id : 0..MaxRows, body : {"x", "y"}]

\* a call on the messenger has ended with the result r
Messaged(op, payload, r) ==
    /\ messenger' = r.m
    /\ last' = [NoCall EXCEPT !.op = op, !.code = payload, !.exc = r.exc,
                              !.ret = r.ret, !.calls = r.events]
    /\ UNCHANGED <<schema, teams, users_teams, team_invitations, now, db, env,
                   notes, tags, notes_tags, sqlite, projects, auth, users,
                   loop, config, rt>>

\* a table holds no more than MaxRows rows
Room(table, payload) ==
    \/ Cardinality(messenger.tables[table]) < MaxRows
    \/ \E r \in messenger.tables[table] : r.id = payload.id

PublishNoteUpdate ==
    \E payload \in Payloads, fault \in BOOLEAN :
       /\ Room("notes", payload)
       /\ Messaged("publish_note_update", payload,
                   publish_note_update(messenger, payload, fault))

SendDirectMessage ==
    \E payload \in Payloads, upsert \in BOOLEAN, fault \in BOOLEAN :
       /\ Room("messages", payload)
       /\ Messaged("send_direct_message", payload,
                   send_direct_message(messenger, payload, upsert, fault))

\* an operation with a retry loop is called on a fresh remote handle and a
\* backend b
Enter(op, b) ==
    /\ loop.state = "idle"
    /\ loop' = [state |-> "running", op |-> op, backend |-> b,
                h |-> Database("u1", RemoteEnv),
                phase |-> FirstPhase(op, Database("u1", RemoteEnv)),
                attempt |-> 1, lookups |-> 0, slug_value |-> Null, passes |-> 1,
                exc |-> "none"]
    /\ UNCHANGED <<schema, teams, users_teams, team_invitations, now, db, last, env,
                   notes, tags, notes_tags, sqlite, projects, auth, users,
                   config, rt, messenger>>

\* the running loop makes one pass: a request and what follows its answer
Pass ==
    /\ loop.state = "running"
    /\ \E e \in {LoopAnswer(loop)} : loop' = PassOf(loop, e)
    /\ UNCHANGED <<schema, teams, users_teams, team_invitations, now, db, last, env,
                   notes, tags, notes_tags, sqlite, projects, auth, users,
                   config, rt, messenger>>

\* the embeddings, the query embeddings, the thresholds (0, the cosine of 45
\* degrees, 1 and -1) and the limits of the matcher
Embeddings == {<<1, 0>>, <<0, 1>>, <<1, 1>>, <<0 - 1, 0>>, <<0, 0>>}

QueryEmbeddings == {<<1, 0>>, <<1, 1>>, <<0, 0>>}

Thresholds == {[num |-> 0, den |-> 1], [num |-> 1, den |-> 2],
               [num |-> 1, den |-> 1], [num |-> 0 - 1, den |-> 1]}

Limits == (0 - 1)..MaxCandidates

\* the rows with an embedding the select of match_notes can be answered with
Candidates ==
    UNION {{[i \in 1..n |-> [id |-> i, body_embedding |-> e[i]]] :
              e \in [1..n -> Embeddings]} : n \in 0..MaxCandidates}

\* match_notes on the rows data, once in a behaviour: the call is on record
\* with its arguments
MatchNotes ==
    \E data \in Candidates, q \in QueryEmbeddings, limit \in Limits,
       threshold \in Thresholds :
       /\ last.op = "none"
       /\ last' = [NoCall EXCEPT !.op = "match_notes", !.rows = data, !.user = q,
                                 !.code = [limit |-> limit, threshold |-> threshold],
                                 !.ret = match_notes(data, q, limit, threshold)]
       /\ UNCHANGED <<schema, teams, users_teams, team_invitations, now, db, env,
                      notes, tags, notes_tags, sqlite, projects, auth, users,
                      beside>>

\* what the backend answers the calls of one add_note with tags with
TagScripts ==
    {f \in [1..MaxTagScript -> {"ok", "other"}] :
        Cardinality({i \in 1..MaxTagScript : f[i] # "ok"}) <= MaxFaults}

\* add_note with tags on the remote backend, which may fail any of its calls
AddTaggedNote(c) ==
    \E tag_input \in TagInputs, f \in TagScripts :
       /\ db[c].mode = "supabase"
       /\ Len(notes) < MaxNotes
       /\ \E r \in {add_note(World(db[c], f), <<"a">>, <<"b">>, tag_input, Null, Null)} :
             Finish(c, "add_note", Null, Null, Null, r, r.ret, tag_input)

\* get_note, and Note.from_row on the row it returns as the add command does:
\* ret is the id of the row and rows are the tags of the note
GetNote(c, F) ==
    \E note_id \in NoteIds, f \in ScriptsFor(c, F) :
       \E r \in {get_note(World(db[c], f), note_id)} :
          Finish(c, "get_note", Null, Null, note_id, r,
                 IF r.ret = <<>> THEN Null ELSE r.ret[1].id,
                 IF r.ret = <<>> THEN <<>> ELSE from_row(r.ret[1]))

\* list_notes: the tag and the limit asked for are on record as user and code,
\* rows are the ids of the notes returned, in their order
ListNotes(c, F) ==
    \E limit \in {NoLimit, 0, 1}, tag \in {<<>>, <<"a">>, <<"a", "b">>},
       tie \in {"stored", "reversed"}, f \in ScriptsFor(c, F) :
       \E r \in {list_notes(World(db[c], f), limit, tag, Null, tie)} :
          Finish(c, "list_notes", Null, tag, limit, r, Null,
                 [k \in 1..Len(r.ret) |-> r.ret[k].id])

\* add_note with a project path and a team identifier, none of them when Null:
\* the path is on record as user
AddTeamNote(c, F) ==
    \E project_path \in {Null, "/p"}, team_id \in TeamIdentifiers \cup {Null},
       f \in ScriptsFor(c, F) :
       /\ NotesStored < MaxNotes
       /\ \E r \in {add_note(World(db[c], f), <<"a">>, <<"b">>, <<>>, project_path,
                              team_id)} :
             Finish(c, "add_note", team_id, project_path, Null, r, r.ret, {})

\* list_notes of a team: rows are the ids of the notes returned, in their order
ListTeamNotes(c, F) ==
    \E team_id \in TeamIdentifiers \cup {""}, f \in ScriptsFor(c, F) :
       \E r \in {list_notes(World(db[c], f), NoLimit, <<>>, team_id, "stored")} :
          Finish(c, "list_notes", team_id, Null, Null, r, Null,
                 [k \in 1..Len(r.ret) |-> r.ret[k].id])

\* _fetch_team_by_identifier, as the operations on a team call it
FetchTeamByIdentifier(c, F) ==
    \E identifier \in TeamIdentifiers \cup {"team a", ""}, f \in ScriptsFor(c, F) :
       \E r \in {_fetch_team_by_identifier(World(db[c], f), identifier)} :
          Finish(c, "_fetch_team_by_identifier", identifier, Null, Null, r, r.ret, {})

\* add_note of a note to search for
AddSearchNote(c, F) ==
    \E n \in SearchInputs, f \in ScriptsFor(c, F) :
       /\ NotesStored < MaxNotes
       /\ \E r \in {add_note(World(db[c], f), n.title, n.body, n.tags, Null, n.team_id)} :
             Finish(c, "add_note", n.team_id, Null, Null, r, r.ret, n.tags)

\* search_notes: the query is on record as user, rows are the ids of the notes
\* returned, in their order
SearchNotes(c, F) ==
    \E query \in Queries, team_id \in {Null, "t1", "team-b"},
       tie \in {"stored", "reversed"}, f \in ScriptsFor(c, F) :
       \E r \in {search_notes(World(db[c], f), query, team_id, tie)} :
          Finish(c, "search_notes", team_id, query, Null, r, Null,
                 [k \in 1..Len(r.ret) |-> r.ret[k].id])

\* the facade call op of client c, which resolves the acting user, ended as r:
\* the user_id of the handle is what the constructor has set
EndedBy(c, op, r, ret) ==
    /\ Ended(c, op, Null, r.w.h.user_id, Null,
             [r EXCEPT !.w.h.user_id = db[c].user_id], ret, {})
    /\ auth' = [auth EXCEPT ![c] = r.w.a]
    /\ users' = r.w.users

\* Database(): the constructor resolves the user of the handle
Open(c, F) ==
    \E f \in Scripts(F) :
       /\ ~auth[c].opened
       /\ \E r \in {get_current_user_id(WorldOf(c, f))} :
             /\ db' = [db EXCEPT ![c] = Database(IF r.ret # Null THEN r.ret
                                                 ELSE auth[c].USER_ID, env[c])]
             /\ auth' = [auth EXCEPT ![c] = [r.w.a EXCEPT !.opened = TRUE]]
             /\ users' = r.w.users
             /\ last' = [NoCall EXCEPT !.op = "Database", !.client = c,
                                       !.ret = r.ret, !.calls = r.w.calls]
             /\ UNCHANGED <<schema, teams, users_teams, team_invitations, now,
                            env, notes, tags, notes_tags, sqlite, projects,
                            beside>>

\* get_current_user_id of the AuthManager of client c
GetCurrentUserId(c, F) ==
    \E f \in Scripts(F) :
       /\ auth[c].opened
       /\ \E r \in {get_current_user_id(WorldOf(c, f))} :
             EndedBy(c, "get_current_user_id", r, r.ret)

\* create_team, with _require_user_id as the code has it
CreateTeamAs(c, F) ==
    \E f \in Scripts(F) :
       /\ auth[c].opened
       /\ Cardinality(teams) < MaxTeams
       /\ \E r \in {CreateTeamBy(RequireUser(get_current_user_id(WorldOf(c, f))),
                                  "Team A")} :
             EndedBy(c, "create_team", r, r.ret)

\* add_note, with _require_user_id as the code has it
AddNoteAs(c, F) ==
    \E f \in Scripts(F) :
       /\ auth[c].opened
       /\ Len(notes) < MaxNotes
       /\ \E r \in {AddNoteBy(RequireUser(get_current_user_id(WorldOf(c, f))),
                               <<"a">>, <<"b">>)} :
             EndedBy(c, "add_note", r, r.ret)

GetTeam(c, F) ==
    \E identifier \in TeamIds \cup {"team-a", "team a"}, f \in ScriptsFor(c, F) :
       \E r \in {get_team(World(db[c], f), identifier)} :
          Finish(c, "get_team", identifier, Null, Null, r, r.ret, {})

GetTeamMembers(c, F) ==
    \E team_id \in TeamIds, f \in ScriptsFor(c, F) :
       \E r \in {get_team_members(World(db[c], f), team_id)} :
          Finish(c, "get_team_members", team_id, Null, Null, r, Null, r.ret)

SemanticSearch(c, F) ==
    \E f \in ScriptsFor(c, F) :
       \E r \in {semantic_search(World(db[c], f))} :
          Finish(c, "semantic_search", Null, Null, Null, r, Null, r.ret)

Tick ==
    /\ now < MaxTime
    /\ now' = now + 1
    /\ UNCHANGED <<schema, teams, users_teams, team_invitations, db, last,
                   env, notes, tags, notes_tags, sqlite, projects, auth, users,
                   beside>>

\* capability negotiation over the team operations
Next ==
    \/ \E c \in Clients : CreateTeam(c, Faults)
    \/ \E c \in Clients : UpdateTeam(c, Faults)
    \/ \E c \in Clients : DeleteTeam(c, Faults)
    \/ \E c \in Clients : AddUserToTeam(c, Faults)
    \/ \E c \in Clients : RemoveUserFromTeam(c, Faults)
    \/ \E c \in Clients : ListUserTeams(c, Faults)
    \/ \E c \in Clients : ListTeamInvitations(c, Faults)

Spec == Init /\ [][Next]_vars

\* a team of u1 as create_team and add_user_to_team leave it on the schema
TeamOf(owner) ==
    [id |-> "t1", name |-> "Team A",
     slug |-> IF "slug" \in schema THEN "team-a" ELSE Null,
     description |-> Null,
     created_by |-> IF "created_by" \in schema THEN owner ELSE Null,
     deleted_at |-> 0 - 1]

Member(user, role, inviter) ==
    [user_id |-> user, team_id |-> "t1",
     role |-> IF "role" \in schema THEN role ELSE Null,
     invited_by |-> IF "invited_by" \in schema THEN inviter ELSE Null]

\* role enforcement: two fresh remote handles on a backend that holds a team
\* of u1; u2 is no member, a member or an admin of it
InitAuth ==
    /\ schema \in {Columns, Columns \ {"role", "invited_by"}}
    /\ teams = {TeamOf("u1")}
    /\ \E others \in {{}, {Member("u2", "member", "u1")}, {Member("u2", "admin", "u1")}} :
          users_teams = {Member("u1", "owner", "u1")} \cup others
    /\ team_invitations = {}
    /\ now = 0
    /\ env = [c \in Clients |-> RemoteEnv]
    /\ db = [c \in Clients |-> Database(UserOf(c), env[c])]
    /\ last = NoCall
    /\ NoNotes
    /\ Resting
    /\ SignedIn

NextAuth ==
    \/ \E c \in Clients : UpdateTeam(c, {"other"})
    \/ \E c \in Clients : DeleteTeam(c, {"other"})
    \/ \E c \in Clients : RemoveUserFromTeam(c, {"other"})
    \/ \E c \in Clients : CreateTeamInvitation(c, {"other"}, {"K1"})
    \/ \E c \in Clients : ListTeamInvitations(c, {"other"})

SpecAuth == InitAuth /\ [][NextAuth]_vars

\* the life of invitations: two fresh remote handles, a team owned by u1
InitInv ==
    /\ schema = Columns
    /\ teams = {TeamOf("u1")}
    /\ users_teams = {Member("u1", "owner", "u1")}
    /\ team_invitations = {}
    /\ now = 0
    /\ env = [c \in Clients |-> RemoteEnv]
    /\ db = [c \in Clients |-> Database(UserOf(c), env[c])]
    /\ last = NoCall
    /\ NoNotes
    /\ Resting
    /\ SignedIn

NextInv ==
    \/ \E c \in Clients : CreateTeamInvitation(c, {"other"}, Codes)
    \/ \E c \in Clients : AcceptTeamInvitation(c, {"other"})
    \/ \E c \in Clients : RevokeTeamInvitation(c, {"other"})
    \/ Tick

SpecInv == InitInv /\ [][NextInv]_vars

\* memberships: two fresh remote handles on the latest schema, no team yet
InitMember ==
    /\ schema = Columns
    /\ teams = {}
    /\ users_teams = {}
    /\ team_invitations = {}
    /\ now = 0
    /\ env = [c \in Clients |-> RemoteEnv]
    /\ db = [c \in Clients |-> Database(UserOf(c), env[c])]
    /\ last = NoCall
    /\ NoNotes
    /\ Resting
    /\ SignedIn

NextMember ==
    \/ \E c \in Clients : CreateTeam(c, {"other"})
    \/ \E c \in Clients : AddUserToTeam(c, {"other"})
    \/ \E c \in Clients : RemoveUserFromTeam(c, {"other"})
    \/ \E c \in Clients : CreateTeamInvitation(c, {"other"}, {"K1"})
    \/ \E c \in Clients : AcceptTeamInvitation(c, {"other"})

SpecMember == InitMember /\ [][NextMember]_vars

\* slugs: one remote client on the latest schema creates and renames teams
NextSlug ==
    \/ CreateTeamUpTo("c1", {"other"}, MaxSlugTeams)
    \/ UpdateTeam("c1", {"other"})

SpecSlug == InitMember /\ [][NextSlug]_vars

\* a step of client c that is no facade call on the backend
Step(c, op) ==
    /\ last' = [NoCall EXCEPT !.op = op, !.client = c]
    /\ UNCHANGED <<schema, teams, users_teams, team_invitations, now,
                   notes, tags, notes_tags, sqlite, projects, auth, users,
                   beside>>

\* get_connection up to the yield: a handle is constructed from the arguments
\* and the environment of the client
GetConnection(c) ==
    /\ db' = [db EXCEPT ![c] = Database(UserOf(c), env[c])]
    /\ UNCHANGED env
    /\ Step(c, "Database")

\* get_connection after the yield
Close(c) ==
    /\ db' = [db EXCEPT ![c] = close(db[c])]
    /\ UNCHANGED env
    /\ Step(c, "close")

\* the environment of the client changes while its handle lives
Setenv(c) ==
    /\ \E e \in Envs : env' = [env EXCEPT ![c] = e]
    /\ UNCHANGED db
    /\ Step(c, "setenv")

\* construction: the first client's arguments and environment are any, the
\* second client works on the local store
InitOpen ==
    /\ schema = Columns
    /\ teams = {}
    /\ users_teams = {}
    /\ team_invitations = {}
    /\ now = 0
    /\ \E e \in Envs : env = [c \in Clients |-> IF c = "c1" THEN e ELSE LocalEnv]
    /\ db = [c \in Clients |-> Database(UserOf(c), env[c])]
    /\ last = NoCall
    /\ NoNotes
    /\ Resting
    /\ SignedIn

NextOpen ==
    \/ \E c \in Clients : GetConnection(c)
    \/ \E c \in Clients : Close(c)
    \/ Setenv("c1")
    \/ \E c \in Clients : CreateTeam(c, {"other"})

SpecOpen == InitOpen /\ [][NextOpen]_vars

\* notes: the first client works on the remote backend, the second one on the
\* local store, and the backend answers every request
InitNotes ==
    /\ schema = Columns
    /\ teams = {}
    /\ users_teams = {}
    /\ team_invitations = {}
    /\ now = 0
    /\ env = [c \in Clients |-> IF c = "c2" THEN LocalEnv ELSE RemoteEnv]
    /\ db = [c \in Clients |-> Database(UserOf(c), env[c])]
    /\ last = NoCall
    /\ NoNotes
    /\ Resting
    /\ SignedIn

NextNotes ==
    \/ \E c \in Clients : AddNote(c, {})
    \/ \E c \in Clients : GetNote(c, {})
    \/ \E c \in Clients : ListNotes(c, {})
    \/ Tick

SpecNotes == InitNotes /\ [][NextNotes]_vars

\* the local mode: the second client works on the local store while the first
\* one has a team in the remote backend
InitLocal ==
    /\ schema = Columns
    /\ teams = {TeamOf("u1")}
    /\ users_teams = {Member("u1", "owner", "u1")}
    /\ team_invitations = {}
    /\ now = 0
    /\ env = [c \in Clients |-> IF c = "c2" THEN LocalEnv ELSE RemoteEnv]
    /\ db = [c \in Clients |-> Database(UserOf(c), env[c])]
    /\ last = NoCall
    /\ NoNotes
    /\ Resting
    /\ SignedIn

\* the operations of the remote mode on the local handle, and the lookups and
\* the search on both handles
NextLocal ==
    \/ AddNote("c2", {})
    \/ CreateTeamUpTo("c2", {}, MaxSlugTeams)
    \/ \E c \in Clients : GetTeam(c, {"other"})
    \/ UpdateTeam("c2", {})
    \/ DeleteTeam("c2", {})
    \/ ListUserTeams("c2", {})
    \/ AddUserToTeam("c2", {})
    \/ RemoveUserFromTeam("c2", {})
    \/ \E c \in Clients : GetTeamMembers(c, {"other"})
    \/ CreateTeamInvitation("c2", {}, {"K1"})
    \/ ListTeamInvitations("c2", {})
    \/ AcceptTeamInvitation("c2", {})
    \/ \E c \in Clients : SemanticSearch(c, {"other"})

SpecLocal == InitLocal /\ [][NextLocal]_vars

\* notes of teams: the first client works on the remote backend, with or
\* without the team_id column of notes, the second one on the local store; u1
\* has a team in the backend
InitTeamNotes ==
    /\ schema \in {Columns, Columns \ {"note_team_id"}}
    /\ teams = {TeamOf("u1")}
    /\ users_teams = {Member("u1", "owner", "u1")}
    /\ team_invitations = {}
    /\ now = 0
    /\ env = [c \in Clients |-> IF c = "c2" THEN LocalEnv ELSE RemoteEnv]
    /\ db = [c \in Clients |-> Database(UserOf(c), env[c])]
    /\ last = NoCall
    /\ NoNotes
    /\ Resting
    /\ SignedIn

NextTeamNotes ==
    \/ \E c \in Clients : AddTeamNote(c, {})
    \/ \E c \in Clients : ListTeamNotes(c, {})

SpecTeamNotes == InitTeamNotes /\ [][NextTeamNotes]_vars

\* reads scoped to a team: notes are added with and without team and project,
\* listed and searched
NextScoped ==
    \/ \E c \in Clients : AddTeamNote(c, {})
    \/ \E c \in Clients : ListTeamNotes(c, {})
    \/ \E c \in Clients : SearchNotes(c, {})

SpecScoped == InitTeamNotes /\ [][NextScoped]_vars

\* reads after a deletion: the team of u1, with u2 a member, on a backend with
\* or without the deleted_at column
InitDeleted ==
    /\ schema \in {Columns, Columns \ {"deleted_at"}}
    /\ teams = {TeamOf("u1")}
    /\ users_teams = {Member("u1", "owner", "u1"), Member("u2", "member", "u1")}
    /\ team_invitations = {}
    /\ now = 0
    /\ env = [c \in Clients |-> RemoteEnv]
    /\ db = [c \in Clients |-> Database(UserOf(c), env[c])]
    /\ last = NoCall
    /\ NoNotes
    /\ Resting
    /\ SignedIn

NextDeleted ==
    \/ \E c \in Clients : DeleteTeam(c, {})
    \/ \E c \in Clients : GetTeam(c, {})
    \/ \E c \in Clients : ListUserTeams(c, {})
    \/ Tick

SpecDeleted == InitDeleted /\ [][NextDeleted]_vars

\* the second team: its name is the slug of the first one
SecondTeam ==
    [id |-> "t2", name |-> "team-a",
     slug |-> IF "slug" \in schema THEN "team-a-2" ELSE Null,
     description |-> Null,
     created_by |-> IF "created_by" \in schema THEN "u2" ELSE Null,
     deleted_at |-> 0 - 1]

\* the lookup of teams: a backend with or without slugs that holds no team, one
\* or two
InitLookup ==
    /\ schema \in {Columns, Columns \ {"slug"}}
    /\ teams \in {{}, {TeamOf("u1")}, {SecondTeam}, {TeamOf("u1"), SecondTeam}}
    /\ users_teams = {}
    /\ team_invitations = {}
    /\ now = 0
    /\ env = [c \in Clients |-> IF c = "c2" THEN LocalEnv ELSE RemoteEnv]
    /\ db = [c \in Clients |-> Database(UserOf(c), env[c])]
    /\ last = NoCall
    /\ NoNotes
    /\ Resting
    /\ SignedIn

NextLookup ==
    \/ \E c \in Clients : FetchTeamByIdentifier(c, {"other"})
    \/ \E c \in Clients : GetTeam(c, {"other"})

SpecLookup == InitLookup /\ [][NextLookup]_vars

\* the search: the stores of SpecTeamNotes, with notes of several titles and
\* bodies added at several times
NextSearch ==
    \/ \E c \in Clients : AddSearchNote(c, {})
    \/ \E c \in Clients : SearchNotes(c, {})
    \/ Tick

SpecSearch == InitTeamNotes /\ [][NextSearch]_vars

\* no identity: neither client has a user id, the first one works on the remote
\* backend, which holds a team of u1, and the second one on the local store
InitAnon ==
    /\ schema = Columns
    /\ teams = {TeamOf("u1")}
    /\ users_teams = {Member("u1", "owner", "u1")}
    /\ team_invitations = {}
    /\ now = 0
    /\ env = [c \in Clients |-> IF c = "c2" THEN LocalEnv ELSE RemoteEnv]
    /\ db = [c \in Clients |-> Database(Null, env[c])]
    /\ last = NoCall
    /\ NoNotes
    /\ Resting
    /\ auth = [c \in Clients |-> NoIdentity]
    /\ users = Users

NextAnon ==
    \/ \E c \in Clients : AddTeamNote(c, {})
    \/ CreateTeamUpTo("c1", {}, MaxSlugTeams)
    \/ CreateTeamInvitation("c1", {}, {"K1"})
    \/ RemoveUserFromTeam("c1", {})

SpecAnon == InitAnon /\ [][NextAnon]_vars

\* identities: two processes on the remote backend, each with or without an
\* id cached in its config (which then has its row in users), a session and
\* USER_ID; their handles are not constructed yet
InitIdentity ==
    /\ schema = Columns
    /\ teams = {}
    /\ users_teams = {}
    /\ team_invitations = {}
    /\ now = 0
    /\ env = [c \in Clients |-> RemoteEnv]
    /\ db = [c \in Clients |-> Database(Null, env[c])]
    /\ last = NoCall
    /\ NoNotes
    /\ Resting
    /\ auth \in [Clients -> [current_user_id : {Null} \cup Users, _session : {Null},
                             live : {Null, "nouser"} \cup Users,
                             USER_ID : {Null} \cup Users, opened : {FALSE}]]
    /\ \A c \in Clients : /\ auth[c].current_user_id \in {Null, UserOf(c)}
                           /\ auth[c].live \in {Null, "nouser", UserOf(c)}
                           /\ auth[c].USER_ID \in {Null, UserOf(c)}
    /\ users = {auth[c].current_user_id : c \in Clients} \ {Null}

NextIdentity ==
    \/ \E c \in Clients : Open(c, {"other"})
    \/ \E c \in Clients : GetCurrentUserId(c, {"other"})
    \/ \E c \in Clients : CreateTeamAs(c, {"other"})
    \/ \E c \in Clients : AddNoteAs(c, {"other"})

SpecIdentity == InitIdentity /\ [][NextIdentity]_vars

\* the configuration: a manager constructed where no file is
InitConfig ==
    /\ schema = Columns
    /\ teams = {}
    /\ users_teams = {}
    /\ team_invitations = {}
    /\ now = 0
    /\ env = [c \in Clients |-> RemoteEnv]
    /\ db = [c \in Clients |-> Database(UserOf(c), env[c])]
    /\ last = NoCall
    /\ NoNotes
    /\ SignedIn
    /\ loop = NoLoop
    /\ rt = Null
    /\ messenger = Null
    /\ config = load([_config |-> DEFAULT_CONFIG, file |-> <<>>])

NextConfig ==
    \/ Set
    \/ Update
    \/ SetCurrentTeam
    \/ Load
    \/ ConfigTick

SpecConfig == InitConfig /\ [][NextConfig]_vars

\* the realtime client: a client as it is constructed, its consumer in listen,
\* its user, and the server; a task of the client that can run does run
InitRealtime ==
    /\ schema = Columns
    /\ teams = {}
    /\ users_teams = {}
    /\ team_invitations = {}
    /\ now = 0
    /\ env = [c \in Clients |-> RemoteEnv]
    /\ db = [c \in Clients |-> Database(UserOf(c), env[c])]
    /\ last = NoCall
    /\ NoNotes
    /\ SignedIn
    /\ loop = NoLoop
    /\ config = Null
    /\ messenger = Null
    /\ rt = FreshClient

NextRealtime ==
    \/ Listen
    \/ _join_channel
    \/ ListenResumed
    \/ ClientClose
    \/ _receiver_loop
    \/ _heartbeat_loop
    \/ ServerSend
    \/ ServerReply
    \/ ServerClose

SpecRealtime ==
    /\ InitRealtime
    /\ [][NextRealtime]_vars
    /\ WF_vars(_join_channel)
    /\ WF_vars(ListenResumed)
    /\ WF_vars(_receiver_loop)
    /\ WF_vars(_heartbeat_loop)
    /\ WF_vars(CanResume(rt, "closing") /\ ClientClose)

\* the messenger: empty tables, the realtime client connected or not
InitMessenger ==
    /\ schema = Columns
    /\ teams = {}
    /\ users_teams = {}
    /\ team_invitations = {}
    /\ now = 0
    /\ env = [c \in Clients |-> RemoteEnv]
    /\ db = [c \in Clients |-> Database(UserOf(c), env[c])]
    /\ last = NoCall
    /\ NoNotes
    /\ SignedIn
    /\ loop = NoLoop
    /\ config = Null
    /\ rt = Null
    /\ messenger \in {[tables |-> [notes |-> {}, messages |-> {}],
                       connected |-> c] : c \in BOOLEAN}

NextMessenger ==
    \/ PublishNoteUpdate
    \/ SendDirectMessage

SpecMessenger == InitMessenger /\ [][NextMessenger]_vars

\* the retry loops: one operation is called and runs pass by pass; a pass that
\* can be made is made
NextLoops ==
    \/ \E op \in LoopOps, b \in Backends : Enter(op, b)
    \/ Pass

SpecLoops == InitNotes /\ [][NextLoops]_vars /\ WF_vars(Pass)

\* the matcher on every set of rows
NextMatch == MatchNotes

SpecMatch == InitNotes /\ [][NextMatch]_vars

\* notes with tags on a backend that fails
NextTagFaults ==
    \/ \E c \in Clients : AddTaggedNote(c)
    \/ \E c \in Clients : GetNote(c, {})

SpecTagFaults == InitNotes /\ [][NextTagFaults]_vars

\* uniqueness violations: the writes are answered with the backend's duplicate
\* errors, with or without the key of the constraint in the details
DuplicateFaults == {"duplicate", "slug_taken"}

NextDuplicate ==
    \/ \E c \in Clients : CreateTeam(c, DuplicateFaults)
    \/ \E c \in Clients : UpdateTeam(c, DuplicateFaults)
    \/ \E c \in Clients : AddUserToTeam(c, DuplicateFaults)
    \/ \E c \in Clients : CreateTeamInvitation(c, DuplicateFaults, {"K1"})

SpecDuplicate == InitMember /\ [][NextDuplicate]_vars

-----------------------------------------------------------------------------
(* Capability negotiation *)

Calls == last.calls

NCalls == Len(last.calls)

SameCall(i, j) == Calls[i].site = Calls[j].site

\* call j is the next issue of call i
Reissue(i, j) ==
    /\ i < j /\ j <= NCalls /\ SameCall(i, j)
    /\ \A k \in (i + 1)..(j - 1) : ~SameCall(i, k)

\* the message names a missing slug column
SlugSignature(e) == Has(e, "slug") /\ Has(e, "does not exist")

\* C1: every capability flag of a Database handle is monotonically
\* non-increasing: no facade operation and no backend response turns a flag that
\* is false back to true, neither from one operation to the next nor between the
\* backend calls of one operation; a handle in local (sqlite) mode has all its
\* flags false in every state.
C1_FlagsOnlyDowngrade ==
    /\ [](\A c \in Clients : db[c].mode = "sqlite" => Supported(db[c]) = {})
    /\ [](\A i, j \in 1..NCalls : i < j => Calls[j].caps \subseteq Calls[i].caps)
    /\ [][\A c \in Clients : Supported(db'[c]) \subseteq Supported(db[c])]_vars

\* a remote handle that had already lost a capability ran another operation,
\* and the local handle ran one too
C1_Witness ==
    /\ last.op = "create_team" /\ last.client = "c1"
    /\ last.caps # Caps /\ NCalls > 0
    /\ Supported(db["c1"]) # last.caps
    /\ Supported(db["c2"]) = {}

\* C2: when the backend answers the teams insert of create_team with an error
\* mentioning that the slug column does not exist, create_team sets
\* supports_team_slug to false and retries the insert with a payload without the
\* slug key; if the retry and the calls after it succeed, create_team returns the
\* id of the created team, which is stored without a slug; supports_team_slug
\* stays false in every later operation on the handle.
C2_SlugFallback ==
    /\ [](last.op = "create_team" =>
            \A i \in 1..NCalls :
               (Calls[i].table = "teams" /\ Calls[i].op = "insert"
                /\ SlugSignature(Calls[i].exc)) =>
                  /\ ~db[last.client].supports_team_slug
                  /\ Reissue(i, i + 1)
                  /\ \A j \in (i + 1)..NCalls :
                        /\ "slug" \notin Calls[j].cols
                        /\ "supports_team_slug" \notin Calls[j].caps
                  /\ (\A j \in (i + 1)..NCalls : ~Calls[j].exc.raised) =>
                        /\ last.exc = "none"
                        /\ \E t \in teams : t.id = last.ret /\ t.slug = Null)
    /\ [][\A c \in Clients :
            ~db[c].supports_team_slug => ~db'[c].supports_team_slug]_vars

\* create_team got the slug error on its insert, retried and returned the team
C2_Witness ==
    /\ last.op = "create_team" /\ last.exc = "none"
    /\ "supports_team_slug" \in last.caps
    /\ \E i \in 1..NCalls :
          /\ Calls[i].table = "teams" /\ Calls[i].op = "insert"
          /\ SlugSignature(Calls[i].exc)
    /\ \E t \in teams : t.id = last.ret /\ t.slug = Null

\* the capability flag that stands for an optional column or table
CapOf(col) ==
    CASE col = "slug" -> "supports_team_slug"
      [] col = "description" -> "supports_team_description"
      [] col = "created_by" -> "supports_team_created_by"
      [] col = "role" -> "supports_user_team_role"
      [] col = "invited_by" -> "supports_user_team_invited_by"
      [] OTHER -> "supports_team_invitations"

\* the calls that sit in a retry loop: the teams insert of create_team, the
\* users_teams insert of add_user_to_team, the users_teams selects of
\* _fetch_membership and list_user_teams, the teams select of list_user_teams
Retrying(i) ==
    Calls[i].site \in {"create_team", "add_user_to_team", "_fetch_membership",
                       "list_user_teams", "list_user_teams.teams"}

\* the optional columns whose absence the loop of call i recovers from
LoopColumns(i) ==
    IF Calls[i].table = "teams" THEN {"slug", "description", "created_by"}
    ELSE {"role", "invited_by"}

ColumnsOff(caps) ==
    {col \in {"slug", "description", "created_by", "role", "invited_by",
              "team_invitations"} : CapOf(col) \notin caps}

\* C4: once a capability flag is false, no insert, update or select the adapter
\* issues names the corresponding optional column.
C4_OmitsUnsupportedColumns ==
    \A i \in 1..NCalls : Calls[i].cols \cap ColumnsOff(Calls[i].caps) = {}

-----------------------------------------------------------------------------
(* Role enforcement *)

\* the step is a facade call (and not the clock)
IsCall == now' = now

\* the caller of the call that ends in the next state holds one of the roles
\* on the call's team, by the memberships before the call
CallerHasRole(team_id, roles) ==
    \E m \in users_teams :
       /\ m.user_id = UserOf(last'.client) /\ m.team_id = team_id
       /\ m.role \in roles

\* role support is on for the caller's handle and the backend has the column
RoleEnabled == "role" \in schema /\ db[last'.client].supports_user_team_role

\* the call was refused: AuthorizationError, or the service error when the
\* backend failed to answer the membership lookup
Refused ==
    /\ Len(last'.calls) > 0
    /\ last'.calls[1].site = "_fetch_membership"
    /\ IF last'.calls[Len(last'.calls)].exc.raised
       THEN last'.exc = "TeamServiceUnavailable"
       ELSE last'.exc = "AuthorizationError"

TablesUnchanged == UNCHANGED <<teams, users_teams, team_invitations>>

\* C5: with role support enabled, update_team, create_team_invitation,
\* list_team_invitations and remove_user_from_team for another user are refused
\* with AuthorizationError (the service error if the membership lookup itself
\* fails) and leave teams, memberships and invitations unchanged, unless the
\* caller has a membership of the team with role owner or admin; a caller who
\* removes themself is not asked for a role.
C5_RoleEnforced ==
    [][IsCall =>
         /\ ( /\ \/ last'.op \in {"update_team", "create_team_invitation",
                                  "list_team_invitations"}
                 \/ last'.op = "remove_user_from_team"
                    /\ last'.user # UserOf(last'.client)
              /\ RoleEnabled
              /\ ~CallerHasRole(last'.team, {"owner", "admin"}) )
            => Refused /\ TablesUnchanged
         /\ ( /\ last'.op = "remove_user_from_team"
              /\ last'.user = UserOf(last'.client) )
            => /\ last'.exc # "AuthorizationError"
               /\ \A i \in 1..Len(last'.calls) :
                     last'.calls[i].site # "_fetch_membership"]_vars

\* a plain member asked for an invitation and was refused
C5_Witness ==
    /\ last.op = "create_team_invitation" /\ last.exc = "AuthorizationError"
    /\ "role" \in schema
    /\ \E m \in users_teams :
          m.user_id = UserOf(last.client) /\ m.team_id = last.team /\ m.role = "member"
    /\ team_invitations = {}

\* the team of the call is deleted: marked, or its row is gone
Deleted(team_id) == \A t \in teams' : t.id = team_id => t.deleted_at >= 0

\* C6: with role support enabled, delete_team by a caller whose role for the team
\* is not owner (admin, member or no membership) is refused with
\* AuthorizationError and leaves the team row unchanged; with role support
\* disabled on the handle the same call is not refused, and deletes the team and
\* returns True when the backend answers it.
C6_DeleteNeedsOwner ==
    [][(IsCall /\ last'.op = "delete_team") =>
         /\ (RoleEnabled /\ ~CallerHasRole(last'.team, {"owner"}))
            => Refused /\ teams' = teams
         /\ ~db[last'.client].supports_user_team_role
            => /\ last'.exc # "AuthorizationError"
               /\ (\A i \in 1..Len(last'.calls) : ~last'.calls[i].exc.raised)
                  => /\ last'.exc = "none" /\ last'.ret = "true"
                     /\ Deleted(last'.team)]_vars

\* an admin asked to delete the team and was refused
C6_Witness ==
    /\ last.op = "delete_team" /\ last.exc = "AuthorizationError"
    /\ "role" \in schema
    /\ \E m \in users_teams :
          m.user_id = UserOf(last.client) /\ m.team_id = last.team /\ m.role = "admin"
    /\ \E t \in teams : t.id = last.team /\ t.deleted_at < 0

\* C7: when users_teams has no role column, update_team, delete_team,
\* create_team_invitation and remove_user_from_team do not refuse the caller for
\* lack of a role, on any call of the handle, the first included.
C7_LegacySkipsAuthorization ==
    ("role" \notin schema
     /\ last.op \in {"update_team", "delete_team", "create_team_invitation",
                     "remove_user_from_team"})
       => last.exc # "AuthorizationError"

-----------------------------------------------------------------------------
(* Invitations *)

InviteOf(code) == {i \in team_invitations : i.code = code}

\* C8: an invitation that has been redeemed is consumed: a later
\* accept_team_invitation with its code returns the not-found result and creates
\* no membership row.
C8_RedeemedIsConsumed ==
    [][(IsCall /\ last'.op = "accept_team_invitation"
        /\ \E i \in InviteOf(last'.code) : i.redeemed_at >= 0)
         => last'.ret = Null /\ users_teams' = users_teams]_vars

Active(i) == i.redeemed_at < 0 /\ ~(i.expires_at < now)

\* C10: there is at most one unredeemed and unexpired invitation per team and
\* email.
C10_OneActiveInvitation ==
    \A i, j \in team_invitations :
       (Active(i) /\ Active(j) /\ i.team_id = j.team_id /\ i.email = j.email)
          => i = j

-----------------------------------------------------------------------------
(* Memberships and slugs *)

\* C11: whenever create_team returns a team id, a membership row of the creator
\* for that team exists, with role owner when the role column is supported,
\* whatever the backend answered during the call.
C11_CreatorIsOwner ==
    (last.op = "create_team" /\ last.exc = "none")
       => \E m \in users_teams :
             /\ m.user_id = UserOf(last.client) /\ m.team_id = last.ret
             /\ "supports_user_team_role" \in Supported(db[last.client])
                => m.role = "owner"

\* the user is a member of the team before the call
IsMember(user, team_id) ==
    \E m \in users_teams : m.user_id = user /\ m.team_id = team_id

\* the backend answered every call of the operation, be it with a duplicate error
Answered ==
    \A k \in 1..Len(last'.calls) :
       last'.calls[k].exc.raised => IsDuplicate(last'.calls[k].exc)

NoFailure == \A k \in 1..Len(last'.calls) : ~last'.calls[k].exc.raised

\* the slug is stored by no team
FreeSlug(slug) == \A t \in teams : t.slug # slug

\* the slugs of a name in the order the spec prescribes them
SlugSeries(name) ==
    <<slugify(name), slugify(name) \o "-2", slugify(name) \o "-3">>

\* the first slug of the series of the name no team stores
FirstFree(name) ==
    SlugSeries(name)[CHOOSE k \in 1..Len(SlugSeries(name)) :
                        /\ FreeSlug(SlugSeries(name)[k])
                        /\ \A j \in 1..(k - 1) : ~FreeSlug(SlugSeries(name)[j])]

\* C13: with slug support on, a create_team the backend answers stores the team
\* under slugify(name) when no team has that slug and under the first free
\* slugify(name)-k otherwise (the second team of a name gets -2), and the slugs
\* one client stores by create_team and update_team are pairwise distinct.
C13_SlugsDistinct ==
    /\ [](\A t1, t2 \in teams : (t1.slug # Null /\ t1.slug = t2.slug) => t1 = t2)
    /\ [][(last'.op = "create_team" /\ NoFailure)
            => /\ last'.exc = "none"
               /\ \E t \in teams' \ teams :
                     /\ t.id = last'.ret
                     /\ t.slug = FirstFree(t.name)
                     /\ teams' = teams \cup {t}]_vars

\* two teams of the same name are stored, the second one under the suffix -2
C13_Witness ==
    /\ last.op = "create_team" /\ last.exc = "none"
    /\ \E t1, t2 \in teams :
          /\ t1.name = t2.name /\ t2.id = last.ret
          /\ t1.slug = slugify(t1.name)
          /\ t2.slug = slugify(t1.name) \o "-2"

-----------------------------------------------------------------------------
(* Backend failures *)

\* the writes whose uniqueness violations the operations report
DuplicateSites == {"create_team", "update_team", "add_user_to_team",
                   "create_team_invitation"}

\* C14: when the backend answers the insert or update of create_team,
\* update_team, add_user_to_team or create_team_invitation with a uniqueness
\* violation, whatever column its text or details name, the operation raises
\* DuplicateResourceError, issues no further request and leaves the capability
\* flags of the handle as they were.
C14_DuplicateSurfaces ==
    [][\A k \in 1..Len(last'.calls) :
          (/\ last'.op = last'.calls[k].site
           /\ last'.op \in DuplicateSites
           /\ IsDuplicate(last'.calls[k].exc))
             => /\ last'.exc = "DuplicateResourceError"
                /\ k = Len(last'.calls)
                /\ db' = db]_vars

\* C15: when the backend answers a request of a facade operation with a failure
\* that is no capability mismatch, the operation issues no further request and
\* raises a typed error.
C15_FailureSurfaces ==
    [][\A k \in 1..Len(last'.calls) :
          (IsCall /\ last'.calls[k].exc = InjectedExc("other"))
             => /\ k = Len(last'.calls)
                /\ last'.exc # "none"]_vars

-----------------------------------------------------------------------------
(* Modes *)

\* the variable is set, to a value that is not empty
IsSet(v) == v # Null /\ v # ""

\* the spec's rule for the local mode
LocalSelected(e) ==
    \/ e.db_path # Null
    \/ IsSet(e.CLI_UNITES_DB_PATH)
    \/ ~(IsSet(e.SUPABASE_URL) /\ IsSet(e.SUPABASE_KEY))

\* C16: a handle is constructed in sqlite mode if an explicit db_path is passed,
\* or CLI_UNITES_DB_PATH is set, or SUPABASE_URL and SUPABASE_KEY are not both
\* set, and in supabase mode otherwise; exactly one of sqlite_conn and client is
\* set on it; and no later step of its life changes its mode.
C16_ModeSelection ==
    /\ [](last.op = "Database"
            => LET h == db[last.client]
               IN /\ h.exc = "none"
                  /\ h.mode = IF LocalSelected(env[last.client])
                              THEN "sqlite" ELSE "supabase"
                  /\ (h.sqlite_conn # Null) # (h.client # Null)
                  /\ (h.sqlite_conn # Null) = (h.mode = "sqlite"))
    /\ [][last'.op # "Database" => \A c \in Clients : db'[c].mode = db[c].mode]_vars

\* a handle was constructed in sqlite mode because of CLI_UNITES_DB_PATH although
\* the credentials are set and a client was passed
C16_Witness ==
    /\ last.op = "Database"
    /\ db[last.client].mode = "sqlite" /\ db[last.client].client = Null
    /\ env[last.client].db_path = Null
    /\ env[last.client].supabase_client # Null
    /\ IsSet(env[last.client].SUPABASE_URL) /\ IsSet(env[last.client].SUPABASE_KEY)

\* the operations of the remote mode
RemoteOnly ==
    {"create_team", "get_team", "update_team", "delete_team", "list_user_teams",
     "add_user_to_team", "remove_user_from_team", "get_team_members",
     "create_team_invitation", "list_team_invitations", "accept_team_invitation",
     "semantic_search"}

\* C17: on a handle in sqlite mode every operation of the remote mode raises
\* TeamServiceUnavailable and leaves the notes of every store, and the remote
\* tables, as they are.
C17_RemoteOnlyUnsupported ==
    [][(last'.op \in RemoteOnly /\ db[last'.client].mode = "sqlite")
         => /\ last'.exc = "TeamServiceUnavailable"
            /\ UNCHANGED <<notes, tags, notes_tags, sqlite, projects>>
            /\ TablesUnchanged]_vars

\* semantic search was refused on the local handle while its store holds a note
C17_Witness ==
    /\ last.op = "semantic_search" /\ last.exc = "TeamServiceUnavailable"
    /\ db[last.client].mode = "sqlite"
    /\ Len(sqlite[db[last.client].db_path]) > 0

-----------------------------------------------------------------------------
(* Notes *)

\* the notes the handle of the client works on
StoreOf(c) == IF db[c].mode = "sqlite" THEN sqlite[db[c].db_path] ELSE notes

\* the tags the note was added with: stripped, without the empty ones, as a set
TagSetOf(row) == {strip(row.input[i]) : i \in 1..Len(row.input)} \ {<<>>}

\* C18: in both modes, the note get_note returns for the id add_note returned has
\* as its tags the tags add_note was given, stripped, without the empty ones and
\* without repetitions, in sorted order.
C18_TagsRoundTrip ==
    (last.op = "get_note" /\ last.exc = "none" /\ last.ret # Null)
       => \A k \in 1..Len(StoreOf(last.client)) :
             StoreOf(last.client)[k].id = last.ret
                => /\ {last.rows[i] : i \in 1..Len(last.rows)}
                         = TagSetOf(StoreOf(last.client)[k])
                   /\ \A i, j \in 1..Len(last.rows) :
                         i < j => Before(last.rows[i], last.rows[j])

\* C19: list_notes with a tag returns exactly the notes of the store that carry
\* the tag as a whole tag.
C19_TagFilterExact ==
    (last.op = "list_notes" /\ last.exc = "none" /\ last.user # <<>>
     /\ last.code = NoLimit)
       => {last.rows[i] : i \in 1..Len(last.rows)}
             = {StoreOf(last.client)[k].id :
                  k \in {k \in 1..Len(StoreOf(last.client)) :
                           last.user \in TagSetOf(StoreOf(last.client)[k])}}

\* the creation time of the note of the client's store with the id
CreatedOf(c, id) ==
    (CHOOSE row \in {StoreOf(c)[k] : k \in 1..Len(StoreOf(c))} : row.id = id).created_at

\* C20: list_notes with a limit N >= 0 returns at most N notes, each created
\* strictly later than the one after it.
C20_LimitAndOrder ==
    (last.op = "list_notes" /\ last.exc = "none")
       => /\ last.code >= 0 => Len(last.rows) <= last.code
          /\ \A i, j \in 1..Len(last.rows) :
                i < j => CreatedOf(last.client, last.rows[i])
                            > CreatedOf(last.client, last.rows[j])

-----------------------------------------------------------------------------
(* Notes of teams *)

\* no team of the backend has x for its id, its slug or, whatever the case of
\* the letters, its name
Unresolved(x) ==
    \A t \in teams : t.id # x /\ t.slug # x /\ lower(t.name) # lower(x)

\* C21: in remote mode list_notes for a team identifier that resolves to no
\* team, by id, slug or name, returns the empty sequence and raises nothing,
\* whatever the capability flags of the handle and the notes stored are.
C21_UnknownTeamListsNothing ==
    (/\ last.op = "list_notes"
     /\ db[last.client].mode = "supabase"
     /\ Given(last.team)
     /\ Unresolved(last.team))
    => (last.exc = "none" /\ last.rows = <<>>)

-----------------------------------------------------------------------------
(* Team identifiers *)

\* the backend answered every lookup of the call, be it with the error on the
\* slug column it lacks
LookupsAnswered ==
    \A k \in 1..Len(last.calls) :
       last.calls[k].exc.raised
          => (Has(last.calls[k].exc, "slug") /\ Has(last.calls[k].exc, "does not exist"))

\* the team the spec prescribes for the identifier x on a handle with the
\* capability flags caps: Null for none
Prescribed(x, caps) ==
    IF x \in TeamIds /\ \E t \in teams : t.id = x THEN x
    ELSE IF "supports_team_slug" \in caps /\ \E t \in teams : t.slug = x
    THEN (CHOOSE t \in teams : t.slug = x).id
    ELSE IF \E t \in teams : lower(t.name) = lower(x)
    THEN (CHOOSE t \in teams : lower(t.name) = lower(x)).id
    ELSE Null

StoredNote == notes'[CHOOSE k \in 1..Len(notes') : notes'[k].id = last'.ret]

\* the rows of projects with the path
ProjectsAt(rows, path) == {p \in rows : p.absolute_path = path}

\* C23: in remote mode add_note with a team identifier that matches no team and
\* has not the form of an id creates a team of that name and links the note to
\* it, with or without a project path and whether the project is new or not;
\* and add_note with a project path leaves exactly one project row of that
\* path, a new one only when there was none.
C23_TeamAndProjectCreated ==
    [][(/\ last'.op = "add_note"
        /\ db[last'.client].mode = "supabase"
        /\ last'.exc = "none")
       => /\ (Given(last'.team) /\ ~is_uuid(last'.team) /\ Unresolved(last'.team))
                => \E t \in teams' \ teams :
                      t.name = last'.team /\ StoredNote.team_id = t.id
          /\ Given(last'.user)
                => /\ Cardinality(ProjectsAt(projects', last'.user)) = 1
                   /\ ProjectsAt(projects, last'.user) # {} => projects' = projects
                   /\ \E p \in ProjectsAt(projects', last'.user) :
                         StoredNote.project_id = p.id]_vars

\* the rows of the local store of the client of the call, once it is over
LocalRows == sqlite'[db[last'.client].db_path]

-----------------------------------------------------------------------------
(* Search *)

\* the ids search_notes returned
Returned == {last.rows[k] : k \in 1..Len(last.rows)}

\* no id is returned twice
NoRepeat == \A i, j \in 1..Len(last.rows) : i # j => last.rows[i] # last.rows[j]

\* the notes of the local store the search is for: the query occurs in the
\* title, the body or the joined tags, and the team is the one given
LocalHits ==
    {StoreOf(last.client)[k].id :
        k \in {j \in 1..Len(StoreOf(last.client)) :
                 /\ \/ Like(StoreOf(last.client)[j].title, last.user)
                    \/ Like(StoreOf(last.client)[j].body, last.user)
                    \/ Like(IfNull(StoreOf(last.client)[j].tags), last.user)
                 /\ Given(last.team) => StoreOf(last.client)[j].team_id = last.team}}

C26_SearchIdempotent ==
    [][last'.op = "search_notes"
       => /\ UNCHANGED <<notes, tags, notes_tags, sqlite, projects, teams,
                         users_teams, team_invitations>>
          /\ (/\ last.op = "search_notes"
              /\ last.client = last'.client
              /\ last.user = last'.user
              /\ last.team = last'.team)
             => /\ last'.exc = last.exc
                /\ {last'.rows[k] : k \in 1..Len(last'.rows)} = Returned]_vars

\* a search for the notes of a team has returned a note on a handle whose
\* flag for the team_id column of notes an earlier call has switched off
C26_Witness ==
    /\ last.op = "search_notes"
    /\ last.team = "t1"
    /\ last.exc = "none"
    /\ last.rows # <<>>
    /\ db[last.client].mode = "supabase"
    /\ "supports_note_team_id" \notin last.caps

-----------------------------------------------------------------------------
(* Deletion of a team *)

\* the calls of the operation that is over, from the place site of the adapter
CallsFrom(site) == {k \in 1..Len(last'.calls) : last'.calls[k].site = site}

\* the answer to the call from the place site
AnswerTo(site) == last'.calls[CHOOSE k \in CallsFrom(site) : TRUE].exc

\* the error names the deleted_at column
NamesDeletedAt(e) == e.raised /\ Has(e, "column") /\ Has(e, "deleted_at")

\* C27: delete_team sets deleted_at and returns True when the backend takes
\* the update; it issues the hard delete exactly when the update fails with an
\* error that names the deleted_at column, then removes the row and returns
\* True; every other failure raises TeamServiceUnavailable and leaves the
\* teams and the memberships as they are.
C27_DeleteFallsBack ==
    [][(last'.op = "delete_team" /\ CallsFrom("delete_team") # {})
       => /\ CallsFrom("delete_team.hard") # {} <=> NamesDeletedAt(AnswerTo("delete_team"))
          /\ ~AnswerTo("delete_team").raised
                => /\ last'.exc = "none" /\ last'.ret = "true"
                   /\ \E t \in teams' : t.id = last'.team /\ t.deleted_at = now
                   /\ {t.id : t \in teams'} = {t.id : t \in teams}
                   /\ users_teams' = users_teams
          /\ (CallsFrom("delete_team.hard") # {} /\ ~AnswerTo("delete_team.hard").raised)
                => /\ last'.exc = "none" /\ last'.ret = "true"
                   /\ \A t \in teams' : t.id # last'.team
          /\ ((AnswerTo("delete_team").raised
                  /\ ~NamesDeletedAt(AnswerTo("delete_team")))
              \/ (CallsFrom("delete_team.hard") # {}
                    /\ AnswerTo("delete_team.hard").raised))
                => /\ last'.exc = "TeamServiceUnavailable"
                   /\ teams' = teams
                   /\ users_teams' = users_teams]_vars

\* the backend has no deleted_at column and the team was removed by the hard
\* delete
C27_Witness ==
    /\ last.op = "delete_team"
    /\ last.exc = "none"
    /\ last.ret = "true"
    /\ \E k \in 1..Len(last.calls) :
          last.calls[k].site = "delete_team.hard" /\ ~last.calls[k].exc.raised
    /\ \E k \in 1..Len(last.calls) :
          last.calls[k].site = "delete_team" /\ Has(last.calls[k].exc, "deleted_at")
    /\ \A t \in teams : t.id # last.team

-----------------------------------------------------------------------------
(* Identity *)

\* the operations that need the acting user
NeedIdentity == {"add_note", "create_team", "create_team_invitation",
                 "remove_user_from_team"}

\* C30: on a handle without a user id an operation that needs the acting user
\* raises AuthorizationError in remote mode and has then written nothing to the
\* backend, no project, team or note; in local mode add_note does not fail.
C30_NoIdentity ==
    [][(last'.op \in NeedIdentity /\ db[last'.client].user_id = Null)
       => /\ db[last'.client].mode = "supabase"
                => /\ last'.exc = "AuthorizationError"
                   /\ UNCHANGED <<projects, teams, notes, users_teams,
                                  team_invitations, tags, notes_tags>>
          /\ (db[last'.client].mode = "sqlite" /\ last'.op = "add_note")
                => last'.exc = "none"]_vars

-----------------------------------------------------------------------------
(* The identity resolver *)

\* the step is a resolution of the acting user by client c alone: a call of
\* get_current_user_id, or the constructor of the handle
Resolving(c) ==
    /\ last'.client = c
    /\ last'.op \in {"get_current_user_id", "Database"}

\* the session the resolver of client c gets in the step, Null for none: the
\* one it holds, else the one the auth client gives when it answers
SessionNow(c) ==
    IF auth[c]._session # Null THEN auth[c]._session
    ELSE IF \E i \in 1..Len(last'.calls) :
              last'.calls[i].op = "get_session" /\ ~last'.calls[i].exc.raised
    THEN auth[c].live
    ELSE Null

\* the resolution asked the auth client for the session
Consulted == \E i \in 1..Len(last'.calls) : last'.calls[i].table = "auth"

\* C28: get_current_user_id yields the id cached in the config, else the id of
\* the user of the live session, else nothing; an id it yields from a session
\* is cached in the config, a cached id stays, and while an id is cached
\* every call yields it without asking for the session
C28_ResolutionOrder ==
    [][\A c \in Clients :
          /\ auth[c].current_user_id # Null
                => auth'[c].current_user_id = auth[c].current_user_id
          /\ Resolving(c) =>
                IF auth[c].current_user_id # Null
                THEN /\ last'.ret = auth[c].current_user_id
                     /\ ~Consulted
                     /\ auth'[c]._session = auth[c]._session
                ELSE IF SessionNow(c) \in Users
                THEN /\ last'.ret = SessionNow(c)
                     /\ auth'[c].current_user_id = SessionNow(c)
                ELSE /\ last'.ret = Null
                     /\ auth'[c].current_user_id = Null]_vars

\* a call answered from the config the id an earlier call of the process took
\* from the session, which it holds
C28_Witness ==
    /\ last.op = "get_current_user_id"
    /\ last.client \in Clients
    /\ last.calls = <<>>
    /\ last.ret \in Users
    /\ auth[last.client]._session = last.ret
    /\ auth[last.client].current_user_id = last.ret


\* the user ids the rows of teams, users_teams and notes refer to
Referenced ==
    {t.created_by : t \in teams} \cup {m.user_id : m \in users_teams}
    \cup {notes[i].user_id : i \in 1..Len(notes)}

\* C29: every user id a row of teams (created_by), users_teams or notes refers
\* to has its row in users, however the id became known to the facade: from
\* the live session, from the config or from USER_ID
C29_UserRowExists == \A id \in Referenced \ {Null} : id \in users

-----------------------------------------------------------------------------
(* Partial failure of add_note *)

\* the calls of the step, and the places of those on table that are inserts
\* answered as raised says
InsertsOn(table, raised) ==
    {i \in 1..Len(last'.calls) :
        /\ last'.calls[i].table = table
        /\ last'.calls[i].op = "insert"
        /\ last'.calls[i].exc.raised = raised}

\* in the step the insert of the note was answered and a later insert of a tag
\* or of a link failed
TagWriteFailed ==
    /\ last'.op = "add_note"
    /\ db[last'.client].mode = "supabase"
    /\ \E i \in InsertsOn("notes", FALSE) :
          \E j \in InsertsOn("tags", TRUE) \cup InsertsOn("notes_tags", TRUE) : i < j

\* C31: in remote mode, when the insert of a tag or of a link fails after
\* add_note has inserted the note, the error reaches the caller as it is, no id
\* is returned, and the note and the links and tags written before the failure
\* stay: nothing is rolled back
C31_NoRollback ==
    [][TagWriteFailed =>
          /\ last'.exc = "Exception"
          /\ last'.ret = Null
          /\ Len(notes') = Len(notes) + 1
          /\ SubSeq(notes', 1, Len(notes)) = notes
          /\ notes_tags \subseteq notes_tags'
          /\ \A l \in notes_tags' \ notes_tags : l.note_id = notes'[Len(notes')].id
          /\ Cardinality(notes_tags' \ notes_tags)
                = Cardinality(InsertsOn("notes_tags", FALSE))
          /\ tags \subseteq tags'
          /\ Cardinality(tags' \ tags) = Cardinality(InsertsOn("tags", FALSE))]_vars

\* a failed add_note has left a note with one of its links
C31_Witness ==
    /\ last.op = "add_note"
    /\ last.exc = "Exception"
    /\ last.ret = Null
    /\ \E i, j \in 1..Len(last.calls) :
          /\ i < j
          /\ last.calls[i].table = "notes_tags" /\ ~last.calls[i].exc.raised
          /\ last.calls[j].table = "notes_tags" /\ last.calls[j].exc.raised
    /\ \E l \in notes_tags : l.note_id = notes[Len(notes)].id

-----------------------------------------------------------------------------
(* The similarity matcher *)

\* the rows of the call whose similarity is above its threshold
Above ==
    {i \in 1..Len(last.rows) :
        Greater(cosine_similarity(last.user, last.rows[i].body_embedding),
                last.code.threshold)}

\* C32: match_notes returns, for every candidate set, limit and threshold,
\* candidates whose similarity is strictly above the threshold, each once, in
\* descending order of similarity, the first limit of them: no more than limit
\* entries, all of them when they are fewer, and none that is smaller than one
\* left out
C32_Ranked ==
    last.op = "match_notes" =>
       /\ \A k \in 1..Len(last.ret) :
             /\ last.ret[k].id \in Above
             /\ last.ret[k].similarity
                   = cosine_similarity(last.user,
                                       last.rows[last.ret[k].id].body_embedding)
       /\ \A j, k \in 1..Len(last.ret) :
             j < k => /\ last.ret[j].id # last.ret[k].id
                      /\ ~Greater(last.ret[k].similarity, last.ret[j].similarity)
       /\ Len(last.ret) <= last.code.limit
       /\ Len(last.ret) = last.code.limit \/ Len(last.ret) = Cardinality(Above)
       /\ \A i \in Above :
             (\A k \in 1..Len(last.ret) : last.ret[k].id # i)
                => \A k \in 1..Len(last.ret) :
                      ~Greater(cosine_similarity(last.user,
                                                 last.rows[i].body_embedding),
                               last.ret[k].similarity)

-----------------------------------------------------------------------------
(* Termination of the retry loops *)

\* C33: every retry loop of the remote adapter that is entered is left, by
\* returning or raising, whatever the backend answers, also when it answers
\* every attempt with the same error; _unique_team_slug makes at most 50
\* lookups
C33_LoopsEnd ==
    /\ [](loop.state = "running" => <>(loop.state \in {"returned", "raised"}))
    /\ [](loop.state # "idle" => loop.lookups <= MaxSlugAttempts)

-----------------------------------------------------------------------------
(* Reads scoped to a team *)

\* the teams x names: by id, by slug or, whatever the case of the letters, by
\* name
TeamsNamed(x) == {t \in teams : t.id = x \/ t.slug = x \/ lower(t.name) = lower(x)}

\* the stored note with this id belongs to team t: by its team_id or by its
\* project
BelongsTo(id, t) ==
    \E k \in 1..Len(notes) :
       /\ notes[k].id = id
       /\ \/ notes[k].team_id = t.id
          \/ \E p \in projects : p.id = notes[k].project_id /\ p.team_id = t.id

\* C34: in remote mode list_notes and search_notes for a team that resolves
\* return only notes that belong to that team, by the team_id of the note or by
\* one of the projects of the team, whatever the capability flags are and also
\* when the team has no project
C34_ScopedToTeam ==
    (/\ last.op \in {"list_notes", "search_notes"}
     /\ db[last.client].mode = "supabase"
     /\ Given(last.team)
     /\ TeamsNamed(last.team) # {}
     /\ last.exc = "none")
    => \A k \in 1..Len(last.rows) :
          \E t \in TeamsNamed(last.team) : BelongsTo(last.rows[k], t)

-----------------------------------------------------------------------------
(* Reads after the deletion of a team *)

\* the teams that delete_team has marked as deleted
SoftDeleted == {t \in teams : t.deleted_at # 0 - 1}

\* C35: once delete_team has returned True for a team, by the soft delete as
\* by the hard one, get_team returns the team for none of its identifiers and
\* list_user_teams of a member does not hold it
C35_DeletedIsGone ==
    /\ (last.op = "get_team" /\ last.exc = "none")
          => \A t \in SoftDeleted : last.ret # t.id
    /\ (last.op = "list_user_teams" /\ last.exc = "none")
          => \A t \in SoftDeleted : t.id \notin last.rows

-----------------------------------------------------------------------------
(* The team of the configuration *)

\* the two keys of the team hold the same value, in the manager as in its
\* file, and get_current_team returns it
InSync ==
    /\ config._config.team_id = config._config.current_team_id
    /\ get_current_team(config) = config._config.current_team_id
    /\ config.file # <<>> => config.file[1].team_id = config.file[1].current_team_id

\* the step is a call of set on a key of the team, or of update with a key of
\* the team in its dict
SetsTeamKey(key) ==
    \/ last'.op = "set" /\ last'.code.key = key
    \/ last'.op = "update" /\ key \in DOMAIN last'.code

\* the value the step gives to the key
ValueGiven(key) == IF last'.op = "set" THEN last'.code.value ELSE last'.code[key]

\* both keys of the team hold the value after the step
BothMovedTo(value) ==
    /\ config'._config.team_id = value
    /\ config'._config.current_team_id = value

\* the statement as it is made: whatever value set or update gives to either
\* key, both keys hold it afterwards
C36_MovesWhateverIsGiven ==
    /\ []InSync
    /\ [][\A key \in {"team_id", "current_team_id"} :
             SetsTeamKey(key) => BothMovedTo(ValueGiven(key))]_vars

\* the team update resolves from its dict: current_team_id when it is given
\* and not None, else team_id, None when neither is
Resolved(updates) ==
    IF "current_team_id" \in DOMAIN updates /\ updates["current_team_id"] # Null
    THEN updates["current_team_id"]
    ELSE IF "team_id" \in DOMAIN updates THEN updates["team_id"]
    ELSE Null

\* C36: after any sequence of set, update and set_current_team calls the
\* legacy key team_id and current_team_id hold the same value and
\* get_current_team returns it; set on either key and set_current_team move
\* both keys to the value given, None included; update moves both to the team
\* it resolves, current_team_id before team_id, and leaves both as they are
\* when it resolves None
C36_KeysInSync ==
    /\ []InSync
    /\ [][/\ \A key \in {"team_id", "current_team_id"} :
                (last'.op = "set" /\ last'.code.key = key)
                   => BothMovedTo(last'.code.value)
          /\ last'.op = "set_current_team" => BothMovedTo(last'.code.team_id)
          /\ last'.op = "update" =>
                IF Resolved(last'.code) # Null
                THEN BothMovedTo(Resolved(last'.code))
                ELSE /\ config'._config.team_id = config._config.team_id
                     /\ config'._config.current_team_id
                           = config._config.current_team_id]_vars

\* update was given None for a key of the team while a team was current, and
\* the team has stayed
C36_Witness ==
    /\ last.op = "update"
    /\ \E key \in {"team_id", "current_team_id"} :
          key \in DOMAIN last.code /\ last.code[key] = Null
    /\ Resolved(last.code) = Null
    /\ config._config.current_team_id = "a"
    /\ config._config.team_id = "a"

\* C37: after any sequence of team switches recent_teams holds at most
\* RECENT_TEAMS_LIMIT entries, their ids pairwise distinct, the entry switched
\* to more recently before the other, and the first entry is the current team
\* whenever a current team is set; clearing the current team with None leaves
\* recent_teams and team_history as they are
C37_RecentTeams ==
    /\ [](/\ Len(config._config.recent_teams) <= 5
          /\ \A j, k \in 1..Len(config._config.recent_teams) :
                j < k =>
                   /\ config._config.recent_teams[j].id
                         # config._config.recent_teams[k].id
                   /\ config._config.recent_teams[j].switched_at
                         >= config._config.recent_teams[k].switched_at
          /\ config._config.current_team_id \notin {Null, ""} =>
                /\ config._config.recent_teams # <<>>
                /\ config._config.recent_teams[1].id
                      = config._config.current_team_id)
    /\ [][(\/ /\ last'.op = "set"
              /\ last'.code.key \in {"team_id", "current_team_id"}
              /\ last'.code.value = Null
           \/ /\ last'.op = "set_current_team"
              /\ last'.code.team_id = Null)
          => /\ config'._config.recent_teams = config._config.recent_teams
             /\ config'._config.team_history = config._config.team_history]_vars

\* the sixth team was switched to at a later time than the first: team c, that
\* the others came after, is not among the five entries that are left
C37_Witness ==
    /\ last.op = "set"
    /\ last.code.value = "f"
    /\ Len(config._config.recent_teams) = 5
    /\ config._config.recent_teams[1].id = "f"
    /\ config._config.recent_teams[1].switched_at = 1
    /\ config._config.recent_teams[5].switched_at = 0
    /\ \A k \in 1..5 : config._config.recent_teams[k].id # "c"
    /\ config._config.team_history[1] = "f"

-----------------------------------------------------------------------------
(* The realtime client *)

\* the frame is among those of the sequence
Among(frame, frames) == \E k \in 1..Len(frames) : frames[k] = frame

\* connect has joined the channel and started its tasks
Joined == rt._receiver_task # Null

\* what is handed to the consumer is the beginning of what has arrived, in the
\* order of arrival and without the reply to the join
DeliveredInOrder ==
    /\ Len(rt.delivered) <= Len(rt.arrived)
    /\ \A k \in 1..Len(rt.delivered) : rt.delivered[k] = rt.arrived[k]
    /\ \A k \in 1..Len(rt.arrived) : rt.arrived[k] = Change(k)

\* a join that has failed has started no task
FailedJoinStartsNothing ==
    rt.listen = "raised" => rt._receiver_task = Null /\ rt._heartbeat_task = Null

\* C38: every frame the client receives on the socket, but the reply to its
\* join, is handed to the consumer once and in the order of arrival, also
\* when it arrives before the reply; a reply whose status is not ok makes
\* connect fail and no task is started. Here: a frame that has arrived on a
\* channel that is joined is handed over at last, unless the user closes
C38_DeliveredOnce ==
    /\ [](DeliveredInOrder /\ FailedJoinStartsNothing)
    /\ \A n \in 1..MaxFrames :
          [](Among(Change(n), rt.arrived) /\ Joined
                => <>(Among(Change(n), rt.delivered) \/ rt.closing # "idle"))

\* C39: the shutdown of the client ends under every interleaving: once closed
\* is set, by the user or by the receiver loop at the end of the connection,
\* the two tasks finish, _ws is None, and listen does not stay at the queue
C39_ShutdownEnds ==
    [](rt._closed =>
          <>(/\ rt._ws = Null
             /\ rt._receiver_task \in {Null, "done"}
             /\ rt._heartbeat_task \in {Null, "done"}
             /\ rt.listen \notin {"joining", "waiting"}))

-----------------------------------------------------------------------------
(* The messenger *)

\* the events of the call that are broadcasts
Broadcasts == {k \in 1..Len(last.calls) : last.calls[k].kind \notin {"written", "refused"}}

\* the table of the call
TableOf == IF last.op = "publish_note_update" THEN "notes" ELSE "messages"

====
